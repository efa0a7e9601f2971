---------------------------- MODULE TimestampProofs ----------------------------
(***************************************************************************)
(* Proofs about the modules that make and pass on timestamps:              *)
(* ClosedTSStream, ResolvedTimestamp and HLC.                              *)
(***************************************************************************)
EXTENDS ClosedTSStream, ResolvedTimestamp, HLC, SequenceTheorems,
        WellFoundedInduction, TLAPS

\* Leaves are first-order unless they cite SMT.
USE ZenonT(60)


-----------------------------------------------------------------------------
(***************************************************************************)
(* What the buckets say is gapless for any number of ranges, buckets,      *)
(* streams, epochs, timestamps and entries, as long as no two entries that *)
(* the closer produces have timestamps of one wall time.                   *)
(***************************************************************************)

(* The hypothesis.  The closer waits for a fraction of the target duration   *)
(* between two entries, so that the timestamps they close are at different   *)
(* wall times; memStorage.Add compares nothing but wall times.               *)
Distinct(H) == \A g, h \in H : g.ts < h.ts => WallTime(g.ts) < WallTime(h.ts)
DistinctWallTimes == Distinct(history)

Buckets == [1 .. NumBuckets -> Entry]

TypeOK ==
  /\ storage \in [Node -> Buckets]
  /\ closer \in [epoch : 1 .. MaxEpoch, lastEpoch : 1 .. MaxEpoch, ts : 0 .. MaxTS]
  /\ history \in SUBSET Produced
  /\ notifying \in SUBSET history
  /\ conn \in Seq(Conn)

-----------------------------------------------------------------------------
(* x says something about a timestamp that is at, or past, that of h. *)
Reached(x, h) == x.epoch > h.epoch \/ (x.epoch = h.epoch /\ x.ts >= h.ts)

(* What x says includes what h says. *)
UpTo(x, h)   == x.epoch = h.epoch /\ x.ts >= h.ts
Covers(x, h) == \A r \in RangeID : h.mlai[r] <= x.mlai[r]

(* H is a set of entries the closer has produced.  Some of them say something *)
(* about a range.                                                            *)
Relevant(H) == {h \in H : h.mlai # EmptyEntry.mlai}

(* Buckets and messages are empty or speak of a timestamp that was closed.   *)
Known(H, x) == x = EmptyEntry \/ \E h \in H : h.epoch = x.epoch /\ h.ts = x.ts

GaplessEntry(H, x) == \A h \in Relevant(H) : UpTo(x, h) => Covers(x, h)

(* A newer epoch closes later timestamps, and nothing is said about the      *)
(* timestamp the tracker is created with.                                    *)
Ordered(H) ==
  /\ \A g, h \in H : g.epoch < h.epoch => g.ts < h.ts
  /\ \A h \in H : WallTime(h.ts) = 0 => h.mlai = EmptyEntry.mlai

(* No entry is ahead of the closer. *)
HistoryOrder ==
  /\ Ordered(history)
  /\ closer.lastEpoch <= closer.epoch
  /\ \A h \in history :
       /\ h.epoch <= closer.lastEpoch /\ h.ts <= closer.ts
       /\ h.epoch < closer.lastEpoch => h.ts < closer.ts
  /\ notifying = {} \/ \E e \in history : notifying = {e} /\ e.epoch = closer.epoch

BucketsGapless ==
  \A n \in Node, i \in 1 .. NumBuckets :
    Known(history, storage[n][i]) /\ GaplessEntry(history, storage[n][i])

(* The origin's first bucket has everything that was produced under the      *)
(* current epoch, and what the goroutine of Notify still has to queue.       *)
OriginHas(h)   == Reached(storage["origin"][1], h)
FollowerHas(h) == Reached(storage["follower"][1], h)

OriginComplete ==
  \A h \in Relevant(history) :
    /\ h.epoch = closer.epoch => OriginHas(h)
    /\ \A e \in notifying : Reached(e, h) => OriginHas(h)
    /\ \A c \in DOMAIN conn : conn[c].state = "registered" =>
         \A j \in DOMAIN conn[c].out : Reached(conn[c].out[j], h) => OriginHas(h)

(* The follower has passed h, or will once it has added what it was handed   *)
(* and the first n entries of what the stream still has to send.             *)
OnItsWay(c, h, n) ==
  \/ FollowerHas(h)
  \/ \E x \in conn[c].handed : Reached(x, h)
  \/ \E i \in DOMAIN conn[c].out : i <= n /\ Reached(conn[c].out[i], h)

(* A stream is received one entry at a time. *)
OneHanded == \A c \in DOMAIN conn : \A x, y \in conn[c].handed : x = y

(* An entry that was handed over is gapless beyond what the follower has. *)
HandedGapless ==
  \A c \in DOMAIN conn : \A x \in conn[c].handed :
    /\ Known(history, x)
    /\ \A h \in Relevant(history) : UpTo(x, h) => Covers(x, h) \/ FollowerHas(h)

(* An entry in a stream is gapless beyond what is ahead of it, and nothing   *)
(* that was queued under the current epoch is missing from the stream.       *)
StreamGapless ==
  \A c \in DOMAIN conn :
    /\ \A j \in DOMAIN conn[c].out : Known(history, conn[c].out[j])
    /\ conn[c].state = "streaming" =>
         /\ \A j \in DOMAIN conn[c].out : \A h \in Relevant(history) :
              UpTo(conn[c].out[j], h) =>
                Covers(conn[c].out[j], h) \/ OnItsWay(c, h, j - 1)
         /\ \A h \in Relevant(history) \ notifying :
              h.epoch = closer.epoch => OnItsWay(c, h, Len(conn[c].out))

IInv == /\ TypeOK /\ HistoryOrder /\ BucketsGapless
        /\ OriginComplete /\ OneHanded /\ HandedGapless /\ StreamGapless

-----------------------------------------------------------------------------
(* The storage: what merge, Add and VisitAscending return. *)

LEMMA WallTimes ==
  /\ WallTime(0) = 0
  /\ \A t \in Nat : WallTime(t) \in Nat
  BY StreamConstants, SMT, Z3 DEF WallTime

LEMMA EmptyEntryType == EmptyEntry \in Entry /\ NoBuckets \in Buckets
  BY StreamConstants, SMT, Z3 DEF EmptyEntry, Entry, MLAI, NoBuckets, Buckets

LEMMA EntryFields ==
  ASSUME NEW e \in Entry
  PROVE  /\ e.epoch \in Nat /\ e.ts \in Nat /\ e.ts \in 0 .. MaxTS
         /\ e.mlai \in MLAI /\ \A r \in RangeID : e.mlai[r] \in Nat
  BY StreamConstants, SMT, Z3 DEF Entry, MLAI

LEMMA HistoryFields ==
  ASSUME NEW H \in SUBSET Produced, NEW h \in H
  PROVE  /\ h \in Entry /\ h.epoch \in Nat \ {0} /\ h.ts \in Nat
         /\ \A r \in RangeID : h.mlai[r] \in Nat
  BY StreamConstants, SMT, Z3 DEF Produced, Entry, MLAI

\* The three cases of merge.
Merged(m, e, f) ==
  /\ m \in Entry
  /\ e.epoch < f.epoch => m = f
  /\ e.epoch > f.epoch => m = e
  /\ e.epoch = f.epoch =>
       /\ m.epoch = e.epoch
       /\ m.ts = e.ts \/ m.ts = f.ts
       /\ m.ts >= e.ts /\ m.ts >= f.ts
       /\ \A r \in RangeID : m.mlai[r] >= e.mlai[r] /\ m.mlai[r] >= f.mlai[r]

LEMMA MergeCases ==
  ASSUME NEW e \in Entry, NEW f \in Entry
  PROVE  Merged(merge(e, f), e, f)
<1>0. e.epoch \in Nat /\ f.epoch \in Nat /\ e.ts \in Nat /\ f.ts \in Nat
  BY EntryFields
<1>1. CASE e.epoch # f.epoch
  BY <1>0, <1>1, SMT, Z3 DEF merge, Merged
<1>2. CASE e.epoch = f.epoch
  <2> DEFINE ml == [r \in RangeID |-> Max2(e.mlai[r], f.mlai[r])]
  <2>1. merge(e, f) = [epoch |-> e.epoch, ts |-> Max2(e.ts, f.ts), mlai |-> ml]
    BY <1>0, <1>2, SMT, Z3 DEF merge
  <2>2. \A r \in RangeID : /\ ml[r] \in 0 .. MaxLAI
                           /\ ml[r] >= e.mlai[r] /\ ml[r] >= f.mlai[r]
    BY StreamConstants, SMT, Z3 DEF Entry, MLAI, Max2
  <2>3. ml \in MLAI
    BY <2>2 DEF MLAI
  <2>4. Max2(e.ts, f.ts) \in 0 .. MaxTS /\ e.epoch \in 0 .. MaxEpoch
    BY DEF Entry, Max2
  <2> HIDE DEF ml
  <2>5. merge(e, f) \in Entry
    BY <2>1, <2>3, <2>4, SMT, Z3 DEF Entry
  <2>6. merge(e, f).ts >= e.ts /\ merge(e, f).ts >= f.ts
    BY <1>0, <2>1, SMT, Z3 DEF Max2
  <2> QED
    BY <1>0, <1>2, <2>1, <2>2, <2>5, <2>6, SMT, Z3 DEF Max2, Merged
<1> QED
  BY <1>0, <1>1, <1>2

\* A merged entry reaches what either of the two reached.
LEMMA MergeReaches ==
  ASSUME NEW H \in SUBSET Produced, NEW e \in Entry, NEW f \in Entry, NEW h \in H,
         Reached(e, h) \/ Reached(f, h)
  PROVE  Reached(merge(e, f), h)
<1> DEFINE m == merge(e, f)
<1>1. Merged(m, e, f)
  BY MergeCases
<1> HIDE DEF m
<1>2. /\ e.epoch \in Nat /\ f.epoch \in Nat /\ e.ts \in Nat /\ f.ts \in Nat
      /\ h.epoch \in Nat /\ h.ts \in Nat /\ m.epoch \in Nat /\ m.ts \in Nat
  BY <1>1, EntryFields, HistoryFields DEF Merged
<1>3. Reached(m, h)
  BY <1>1, <1>2, SMT, Z3 DEF Reached, Merged
<1> QED
  BY <1>3 DEF m

\* A merged entry speaks of a timestamp one of the two spoke of.
LEMMA MergeKnown ==
  ASSUME NEW H \in SUBSET Produced, NEW e \in Entry, NEW f \in Entry, Known(H, e), Known(H, f)
  PROVE  Known(H, merge(e, f))
<1>0. e.epoch \in Nat /\ f.epoch \in Nat /\ Merged(merge(e, f), e, f)
  BY EntryFields, MergeCases
<1>1. CASE e.epoch # f.epoch
  <2>1. merge(e, f) = e \/ merge(e, f) = f
    BY <1>0, <1>1, SMT, Z3 DEF Merged
  <2> QED
    BY <2>1
<1>2. CASE e.epoch = f.epoch /\ e.epoch = 0
  <2>1. e = EmptyEntry /\ f = EmptyEntry
    BY <1>2, HistoryFields DEF Known
  <2>2. merge(e, f) = EmptyEntry
    BY <2>1 DEF merge, EmptyEntry, Max2
  <2> QED
    BY <2>2 DEF Known
<1>3. CASE e.epoch = f.epoch /\ e.epoch # 0
  <2>1. /\ \E h \in H : h.epoch = e.epoch /\ h.ts = e.ts
        /\ \E h \in H : h.epoch = f.epoch /\ h.ts = f.ts
    BY <1>3, SMT, Z3 DEF Known, EmptyEntry
  <2>2. merge(e, f).epoch = e.epoch /\ (merge(e, f).ts = e.ts \/ merge(e, f).ts = f.ts)
    BY <1>0, <1>3 DEF Merged
  <2> QED
    BY <1>3, <2>1, <2>2 DEF Known
<1> QED
  BY <1>1, <1>2, <1>3

\* Merging f into a gapless entry e gives a gapless one, if f is gapless at
\* least beyond what e reaches.
LEMMA MergeGapless ==
  ASSUME NEW H \in SUBSET Produced, NEW e \in Entry, NEW f \in Entry, GaplessEntry(H, e),
         \A h \in Relevant(H) : UpTo(f, h) => Covers(f, h) \/ Reached(e, h)
  PROVE  GaplessEntry(H, merge(e, f))
<1> DEFINE m == merge(e, f)
<1>1. Merged(m, e, f)
  BY MergeCases
<1> HIDE DEF m
<1>2. ASSUME NEW h \in Relevant(H), UpTo(m, h) PROVE Covers(m, h)
  <2>0. /\ e.epoch \in Nat /\ f.epoch \in Nat /\ e.ts \in Nat /\ f.ts \in Nat
        /\ h.epoch \in Nat /\ h.ts \in Nat /\ m.ts \in Nat
        /\ \A r \in RangeID : /\ e.mlai[r] \in Nat /\ f.mlai[r] \in Nat
                              /\ h.mlai[r] \in Nat /\ m.mlai[r] \in Nat
    BY <1>1, EntryFields, HistoryFields DEF Relevant, Merged
  <2>1. CASE e.epoch > f.epoch
    <3>1. m = e
      BY <1>1, <2>1 DEF Merged
    <3> QED
      BY <1>2, <3>1 DEF GaplessEntry
  <2>2. CASE e.epoch < f.epoch
    <3>1. m = f
      BY <1>1, <2>2 DEF Merged
    <3>2. ~Reached(e, h)
      BY <1>2, <2>0, <2>2, <3>1, SMT, Z3 DEF UpTo, Reached
    <3> QED
      BY <1>2, <3>1, <3>2
  <2>3. CASE e.epoch = f.epoch
    <3>1. UpTo(e, h) \/ (UpTo(f, h) /\ ~Reached(e, h))
      BY <1>1, <1>2, <2>0, <2>3 DEF UpTo, Reached, Merged
    <3>2. Covers(e, h) \/ Covers(f, h)
      BY <3>1 DEF GaplessEntry
    <3> QED
      BY <1>1, <2>0, <2>3, <3>2, SMT, Z3 DEF Covers, Merged
  <2> QED
    BY <2>0, <2>1, <2>2, <2>3, SMT, Z3
<1> QED
  BY <1>2 DEF GaplessEntry, m

\* What Add does to the first bucket, and to the others.
LEMMA AddShape ==
  ASSUME NEW b \in Buckets, NEW e \in Entry
  PROVE  /\ Add(b, e) \in Buckets
         /\ Add(b, e)[1] = IF WallTime(e.ts) > WallTime(b[1].ts) THEN merge(b[1], e)
                                                                 ELSE b[1]
         /\ \A i \in 2 .. NumBuckets : \/ Add(b, e)[i] = b[i]
                                       \/ Add(b, e)[i] = merge(b[i], b[i - 1])
<1> DEFINE Old(i)   == WallTime(e.ts) - WallTime(b[i].ts) > bucketMaxAge(i)
           Moves(i) == \A j \in 1 .. i : Old(j)
<1>1. Add(b, e) = [i \in 1 .. NumBuckets |->
                     IF Moves(i) THEN merge(b[i], IF i = 1 THEN e ELSE b[i - 1])
                                 ELSE b[i]]
  BY DEF Add
<1>2. 1 \in 1 .. NumBuckets /\ \A i \in 1 .. NumBuckets : b[i] \in Entry
  BY StreamConstants, SMT, Z3 DEF Buckets
<1>3. Moves(1) <=> WallTime(e.ts) > WallTime(b[1].ts)
  <2>1. WallTime(e.ts) \in Nat /\ WallTime(b[1].ts) \in Nat
    BY <1>2, EntryFields, WallTimes
  <2>2. Moves(1) <=> Old(1)
    BY SMT, Z3
  <2> QED
    BY <2>1, <2>2, SMT, Z3 DEF bucketMaxAge
<1> HIDE DEF Moves
<1>4. \A i \in 2 .. NumBuckets : i \in 1 .. NumBuckets /\ i # 1 /\ i - 1 \in 1 .. NumBuckets
  BY StreamConstants, SMT, Z3
<1>5. \A i \in 1 .. NumBuckets : Add(b, e)[i] \in Entry
  <2> SUFFICES ASSUME NEW i \in 1 .. NumBuckets PROVE Add(b, e)[i] \in Entry
    OBVIOUS
  <2>1. (IF i = 1 THEN e ELSE b[i - 1]) \in Entry
    BY <1>2, StreamConstants, SMT, Z3
  <2> QED
    BY <1>1, <1>2, <2>1, MergeCases, SMT, Z3 DEF Merged
<1>6. Add(b, e) \in Buckets
  BY <1>1, <1>5 DEF Buckets
<1> QED
  BY <1>1, <1>2, <1>3, <1>4, <1>6

\* The first bucket never goes back, and it takes in what is added: an entry
\* that Add turns away has nothing the bucket does not already reach.
LEMMA AddReaches ==
  ASSUME NEW H \in SUBSET Produced, Ordered(H), Distinct(H),
         NEW b \in Buckets, Known(H, b[1]), NEW e \in Entry, Known(H, e),
         NEW h \in Relevant(H), Reached(b[1], h) \/ Reached(e, h)
  PROVE  Reached(Add(b, e)[1], h)
<1>1. b[1] \in Entry /\ h \in H
  BY StreamConstants, SMT, Z3 DEF Buckets, Relevant
<1>2. CASE WallTime(e.ts) > WallTime(b[1].ts)
  <2>1. Add(b, e)[1] = merge(b[1], e)
    BY <1>2, AddShape
  <2> QED
    BY <1>1, <2>1, MergeReaches, SMT, Z3
<1>3. CASE ~(WallTime(e.ts) > WallTime(b[1].ts))
  <2>1. Add(b, e)[1] = b[1]
    BY <1>3, AddShape
  <2>2. CASE Reached(b[1], h)
    BY <2>1, <2>2
  <2>3. CASE Reached(e, h)
    <3> DEFINE x == b[1]
    <3>1. /\ x.epoch \in Nat /\ x.ts \in Nat /\ e.epoch \in Nat /\ e.ts \in Nat
          /\ h.epoch \in Nat \ {0} /\ h.ts \in Nat
          /\ WallTime(x.ts) \in Nat /\ WallTime(e.ts) \in Nat /\ WallTime(h.ts) \in Nat
      BY <1>1, EntryFields, HistoryFields, WallTimes
    <3>2. PICK g \in H : g.epoch = e.epoch /\ g.ts = e.ts
      BY <2>3, <3>1, SMT, Z3 DEF Known, Reached, EmptyEntry
    <3>3. h.ts <= e.ts
      BY <1>1, <2>3, <3>1, <3>2, SMT, Z3 DEF Reached, Ordered
    <3>4. WallTime(h.ts) # 0
      BY <1>1 DEF Ordered, Relevant
    <3>5. WallTime(e.ts) # 0
      BY <1>1, <3>1, <3>2, <3>3, <3>4, SMT, Z3 DEF Distinct
    <3>6. x # EmptyEntry
      BY <1>3, <3>1, <3>5, WallTimes, SMT, Z3 DEF EmptyEntry
    <3>7. PICK f \in H : f.epoch = x.epoch /\ f.ts = x.ts
      BY <3>6 DEF Known
    <3>8. ~(x.ts < e.ts)
      BY <1>3, <3>1, <3>2, <3>7 DEF Distinct
    <3>9. x.epoch >= e.epoch
      BY <3>1, <3>2, <3>7, <3>8, SMT, Z3 DEF Ordered
    <3> HIDE DEF x
    <3>10. Reached(x, h)
      BY <2>3, <3>1, <3>3, <3>8, <3>9, SMT, Z3 DEF Reached
    <3> QED
      BY <2>1, <3>10 DEF x
  <2> QED
    BY <2>2, <2>3
<1> QED
  BY <1>2, <1>3

\* Add keeps all buckets gapless, if the entry is gapless at least beyond what
\* the first bucket reaches.
LEMMA AddGapless ==
  ASSUME NEW H \in SUBSET Produced, NEW b \in Buckets, NEW e \in Entry, Known(H, e),
         \A i \in 1 .. NumBuckets : Known(H, b[i]) /\ GaplessEntry(H, b[i]),
         \A h \in Relevant(H) : UpTo(e, h) => Covers(e, h) \/ Reached(b[1], h)
  PROVE  \A i \in 1 .. NumBuckets : Known(H, Add(b, e)[i]) /\ GaplessEntry(H, Add(b, e)[i])
<1> SUFFICES ASSUME NEW i \in 1 .. NumBuckets
             PROVE  Known(H, Add(b, e)[i]) /\ GaplessEntry(H, Add(b, e)[i])
  OBVIOUS
<1>0. \A j \in 1 .. NumBuckets : b[j] \in Entry
  BY DEF Buckets
<1>1. CASE i = 1
  <2>1. Add(b, e)[i] = merge(b[1], e) \/ Add(b, e)[i] = b[1]
    BY <1>1, AddShape
  <2>2. Known(H, merge(b[1], e)) /\ GaplessEntry(H, merge(b[1], e))
    BY <1>0, <1>1, MergeKnown, MergeGapless
  <2> QED
    BY <1>1, <2>1, <2>2
<1>2. CASE i # 1
  <2>1. i \in 2 .. NumBuckets /\ i - 1 \in 1 .. NumBuckets
    BY <1>2, StreamConstants, SMT, Z3
  <2>2. Add(b, e)[i] = merge(b[i], b[i - 1]) \/ Add(b, e)[i] = b[i]
    BY <2>1, AddShape
  <2>3. Known(H, merge(b[i], b[i - 1])) /\ GaplessEntry(H, merge(b[i], b[i - 1]))
    BY <1>0, <2>1, MergeKnown, MergeGapless DEF GaplessEntry
  <2> QED
    BY <2>2, <2>3
<1> QED
  BY <1>1, <1>2

\* Every set of numbers that is not empty has a least element.
LEMMA LeastElement ==
  ASSUME NEW S \in SUBSET Nat, S # {}
  PROVE  \E x \in S : \A y \in S : x <= y
<1> DEFINE R == OpToRel(<, Nat)
<1>1. IsWellFoundedOn(R, Nat)
  BY NatLessThanWellFounded, Zenon
<1>2. PICK x \in S : \A y \in S : ~(<<y, x>> \in R)
  <2> HIDE DEF R
  <2> QED
    BY <1>1, WFMin
<1>3. \A y \in S : ~(y < x)
  BY <1>2 DEF OpToRel
<1> QED
  BY <1>3, SMT, Z3

\* VisitAscending's visit is well defined: the recursive definition has a
\* solution.  (The least i for which there is none up to i cannot exist.)
Visit(b, f, n) ==
  f = [i \in 0 .. n |->
         IF i = 0 THEN <<>>
         ELSE (IF b[i].epoch = 0 THEN <<>> ELSE <<b[i]>>) \o f[i - 1]]

LEMMA VisitExists ==
  ASSUME NEW b \in Buckets, NEW n \in Nat
  PROVE  \E f : Visit(b, f, n)
<1> DEFINE Bad == {k \in Nat : ~ \E f : Visit(b, f, k)}
<1> SUFFICES ASSUME Bad # {} PROVE FALSE
  OBVIOUS
<1>1. PICK k \in Bad : \A j \in Bad : k <= j
  BY LeastElement
<1>2. CASE k = 0
  <2>1. Visit(b, [i \in 0 .. 0 |-> <<>>], 0)
    BY SMT, Z3 DEF Visit
  <2> QED
    BY <1>2, <2>1
<1>3. CASE k # 0
  <2>1. k - 1 \in Nat /\ k - 1 \notin Bad
    BY <1>1, <1>3, SMT, Z3
  <2>2. PICK f : Visit(b, f, k - 1)
    BY <2>1
  <2> DEFINE g == [i \in 0 .. k |->
                     IF i = k THEN (IF b[k].epoch = 0 THEN <<>> ELSE <<b[k]>>) \o f[k - 1]
                              ELSE f[i]]
  <2>3. ASSUME NEW i \in 0 .. k
        PROVE  g[i] = IF i = 0 THEN <<>>
                      ELSE (IF b[i].epoch = 0 THEN <<>> ELSE <<b[i]>>) \o g[i - 1]
    <3>1. CASE i = k
      <4>1. k - 1 \in 0 .. k /\ k - 1 # k /\ g[k - 1] = f[k - 1]
        BY <2>1, SMT, Z3
      <4> HIDE DEF g
      <4>2. g[k] = (IF b[k].epoch = 0 THEN <<>> ELSE <<b[k]>>) \o f[k - 1]
        BY <3>1 DEF g
      <4> QED
        BY <1>3, <3>1, <4>1, <4>2
    <3>2. CASE i # k
      <4>1. i \in 0 .. (k - 1) /\ g[i] = f[i] /\ (i # 0 => g[i - 1] = f[i - 1])
        BY <3>2, SMT, Z3
      <4> QED
        BY <2>2, <4>1 DEF Visit
    <3> QED
      BY <3>1, <3>2
  <2>4. Visit(b, g, k)
    BY <2>3 DEF Visit
  <2> QED
    BY <1>1, <2>4
<1> QED
  BY <1>2, <1>3

\* What a visit from the n-th bucket on sees: buckets that are not empty, the
\* first bucket among them if it is not.
Sees(b, s, n) ==
  /\ s \in Seq(Entry)
  /\ \A k \in DOMAIN s : \E j \in 1 .. NumBuckets : s[k] = b[j]
  /\ n >= 1 /\ b[1].epoch # 0 => \E k \in DOMAIN s : s[k] = b[1]

LEMMA VisitSees ==
  ASSUME NEW b \in Buckets
  PROVE  Sees(b, VisitAscending(b), NumBuckets)
<1> DEFINE f == CHOOSE f : Visit(b, f, NumBuckets)
<1>1. VisitAscending(b) = f[NumBuckets]
  BY DEF VisitAscending, Visit
<1>2. Visit(b, f, NumBuckets)
  BY VisitExists, StreamConstants, Zenon
<1> HIDE DEF f
<1> DEFINE Bad == {k \in 0 .. NumBuckets : ~Sees(b, f[k], k)}
<1>3. ASSUME Bad # {} PROVE FALSE
  <2>1. PICK k \in Bad : \A j \in Bad : k <= j
    <3>1. Bad \in SUBSET Nat
      BY StreamConstants, SMT, Z3
    <3> HIDE DEF Bad
    <3> QED
      BY <1>3, <3>1, LeastElement
  <2>2. k \in 0 .. NumBuckets /\ ~Sees(b, f[k], k)
    OBVIOUS
  <2>3. CASE k = 0
    <3>1. f[0] = <<>>
      BY <1>2, StreamConstants, SMT, Z3 DEF Visit
    <3> QED
      BY <2>2, <2>3, <3>1, SMT, Z3 DEF Sees
  <2>4. CASE k # 0
    <3>1. k - 1 \in 0 .. NumBuckets /\ k \in 1 .. NumBuckets /\ k - 1 \notin Bad
      BY <2>1, <2>4, StreamConstants, SMT, Z3
    <3>2. Sees(b, f[k - 1], k - 1)
      BY <3>1
    <3> DEFINE s == f[k - 1]
               t == IF b[k].epoch = 0 THEN <<>> ELSE <<b[k]>>
    <3>3. f[k] = t \o s
      BY <1>2, <2>4, <3>1 DEF Visit
    <3>4. b[k] \in Entry /\ t \in Seq(Entry) /\ s \in Seq(Entry)
      BY <3>1, <3>2, SMT, Z3 DEF Buckets, Sees
    <3>5. CASE b[k].epoch = 0
      <4>1. f[k] = s
        BY <3>3, <3>4, <3>5, SMT, Z3
      <4> QED
        BY <2>2, <2>4, <3>1, <3>2, <3>5, <4>1, SMTT(30), Z3 DEF Sees
    <3>6. CASE b[k].epoch # 0
      <4>1. f[k] = <<b[k]>> \o s /\ f[k] \in Seq(Entry) /\ Len(f[k]) = 1 + Len(s)
        BY <3>3, <3>4, <3>6, SMT, Z3
      <4>2. f[k][1] = b[k]
        BY <3>4, <4>1, SMT, Z3
      <4>3. \A i \in DOMAIN s : i + 1 \in DOMAIN f[k] /\ f[k][i + 1] = s[i]
        BY <3>4, <4>1, SMT, Z3
      <4>4. \A i \in DOMAIN f[k] : i # 1 => i - 1 \in DOMAIN s /\ f[k][i] = s[i - 1]
        BY <3>4, <4>1, SMT, Z3
      <4>5. 1 \in DOMAIN f[k]
        BY <3>4, <4>1, SMT, Z3
      <4>6. \A i \in DOMAIN f[k] : \E j \in 1 .. NumBuckets : f[k][i] = b[j]
        BY <3>1, <3>2, <4>2, <4>4, SMT, Z3 DEF Sees
      <4>7. b[1].epoch # 0 => \E i \in DOMAIN f[k] : f[k][i] = b[1]
        <5>1. CASE k = 1
          BY <4>2, <4>5, <5>1
        <5>2. CASE k # 1
          <6>1. k - 1 >= 1
            BY <3>1, <5>2, SMT, Z3
          <6> QED
            BY <3>2, <4>3, <6>1 DEF Sees
        <5> QED
          BY <5>1, <5>2
      <4> QED
        BY <2>2, <4>1, <4>6, <4>7 DEF Sees
    <3> QED
      BY <3>5, <3>6
  <2> QED
    BY <2>3, <2>4
<1>4. NumBuckets \in 0 .. NumBuckets /\ NumBuckets \notin Bad
  BY <1>3, StreamConstants, SMT, Z3
<1> QED
  BY <1>1, <1>4

-----------------------------------------------------------------------------
(* The invariant is inductive. *)

LEMMA ConnFields ==
  ASSUME TypeOK, NEW c \in DOMAIN conn
  PROVE  /\ conn[c] \in Conn /\ conn[c].out \in Seq(Entry) /\ conn[c].handed \in SUBSET Entry
         /\ conn[c].state \in {"registered", "streaming", "closed"}
         /\ DOMAIN conn[c].out = 1 .. Len(conn[c].out) /\ Len(conn[c].out) \in Nat
         /\ \A j \in DOMAIN conn[c].out : conn[c].out[j] \in Entry
<1>1. conn[c] \in Conn
  BY ElementOfSeq, SMT, Z3 DEF TypeOK
<1> QED
  BY <1>1, SMT, Z3 DEF Conn

\* Streams that are changed one by one are still a sequence of streams.
LEMMA SameLength ==
  ASSUME TypeOK, NEW f, f = [c \in DOMAIN conn |-> f[c]], \A c \in DOMAIN conn : f[c] \in Conn
  PROVE  f \in Seq(Conn)
<1>1. PICK n \in Nat : DOMAIN conn = 1 .. n
  BY LenProperties DEF TypeOK
<1>2. f \in [1 .. n -> Conn]
  BY <1>1
<1> QED
  BY <1>2, SeqDef, SMT, Z3

LEMMA BucketFields ==
  ASSUME TypeOK, NEW n \in Node
  PROVE  /\ storage[n] \in Buckets
         /\ \A i \in 1 .. NumBuckets : storage[n][i] \in Entry
         /\ 1 \in 1 .. NumBuckets
  BY StreamConstants, SMT, Z3 DEF TypeOK, Buckets

LEMMA InitIInv == Init => IInv
<1> SUFFICES ASSUME Init PROVE IInv
  OBVIOUS
<1> USE DEF Init
<1>1. TypeOK
  BY EmptyEntryType, StreamConstants, SMT, Z3 DEF TypeOK
<1>2. HistoryOrder
  BY SMT, Z3 DEF HistoryOrder, Ordered
<1>3. BucketsGapless
  BY DEF BucketsGapless, Known, GaplessEntry, Relevant, NoBuckets
<1>4. OriginComplete /\ OneHanded /\ HandedGapless /\ StreamGapless
  BY SMT, Z3 DEF OriginComplete, OneHanded, HandedGapless, StreamGapless, Relevant
<1> QED
  BY <1>1, <1>2, <1>3, <1>4 DEF IInv

LEMMA EmptyGapless ==
  ASSUME TypeOK PROVE Known(history, EmptyEntry) /\ GaplessEntry(history, EmptyEntry)
  BY HistoryFields DEF Known, GaplessEntry, Relevant, UpTo, EmptyEntry, TypeOK

\* runCloser and the first half of Notify.
LEMMA CloseAndAddStep ==
  ASSUME IInv, Distinct(history'), NEW e \in Produced, CloseAndAdd(e)
  PROVE  IInv'
<1> DEFINE H == history  G == history'  bo == storage["origin"]
<1>0. /\ e \in Entry /\ e.epoch \in Nat \ {0} /\ e.ts \in Nat /\ bo \in Buckets
      /\ H \in SUBSET Produced /\ G \in SUBSET Produced /\ G = H \cup {e}
      /\ closer.epoch \in Nat /\ closer.lastEpoch \in Nat /\ closer.ts \in Nat
      /\ storage' = [storage EXCEPT !["origin"] = Add(bo, e)]
      /\ conn' = conn /\ notifying' = {e}
      /\ closer' = [epoch |-> e.epoch, lastEpoch |-> e.epoch, ts |-> e.ts]
  BY BucketFields, StreamConstants, SMT, Z3 DEF IInv, TypeOK, CloseAndAdd, Produced, Entry, Node
<1>1. /\ e.epoch >= closer.epoch
      /\ \/ e.ts > closer.ts /\ (WallTime(e.ts) = 0 => e.mlai = EmptyEntry.mlai)
         \/ e.ts = closer.ts /\ e.epoch = closer.lastEpoch /\ e.mlai = EmptyEntry.mlai
  BY DEF CloseAndAdd
<1>2. \A h \in H : /\ h.epoch \in Nat \ {0} /\ h.ts \in Nat
                   /\ h.epoch <= closer.lastEpoch /\ h.ts <= closer.ts
                   /\ h.epoch < closer.lastEpoch => h.ts < closer.ts
  BY <1>0, HistoryFields DEF IInv, HistoryOrder
<1>3. closer.lastEpoch <= closer.epoch /\ Ordered(H)
  BY DEF IInv, HistoryOrder
<1>4. TypeOK'
  <2>1. Add(bo, e) \in Buckets
    BY <1>0, AddShape
  <2>2. storage' \in [Node -> Buckets]
    BY <1>0, <2>1 DEF IInv, TypeOK
  <2>3. closer' \in [epoch : 1 .. MaxEpoch, lastEpoch : 1 .. MaxEpoch, ts : 0 .. MaxTS]
    BY <1>0 DEF Produced
  <2> QED
    BY <1>0, <2>2, <2>3 DEF IInv, TypeOK
<1>5. Ordered(G)
  <2>1. \A h \in H : h.epoch < e.epoch => h.ts < e.ts
    BY <1>0, <1>1, <1>2, SMT, Z3
  <2>2. \A h \in H : ~(e.epoch < h.epoch)
    BY <1>0, <1>1, <1>2, <1>3, SMT, Z3
  <2>3. WallTime(e.ts) = 0 => e.mlai = EmptyEntry.mlai
    BY <1>1
  <2> QED
    BY <1>0, <1>3, <2>1, <2>2, <2>3, SMT, Z3 DEF Ordered
<1>6. HistoryOrder'
  <2>1. \A h \in G : /\ h.epoch <= e.epoch /\ h.ts <= e.ts
                     /\ h.epoch < e.epoch => h.ts < e.ts
    BY <1>0, <1>1, <1>2, <1>3, SMT, Z3
  <2>2. closer'.epoch = e.epoch /\ closer'.lastEpoch = e.epoch /\ closer'.ts = e.ts
    BY <1>0
  <2> QED
    BY <1>0, <1>5, <2>1, <2>2 DEF HistoryOrder
<1>7. /\ Relevant(G) \subseteq Relevant(H) \cup {e} /\ Relevant(H) \subseteq Relevant(G)
      /\ e \in Relevant(G) => e.ts > closer.ts
  BY <1>0, <1>1 DEF Relevant
<1>8. Known(G, e) /\ \A x : Known(H, x) => Known(G, x)
  BY <1>0 DEF Known
<1>9. ASSUME NEW x \in Entry, Known(H, x), e \in Relevant(G) PROVE ~UpTo(x, e)
  BY <1>0, <1>2, <1>7, <1>9, EntryFields, SMT, Z3 DEF Known, UpTo, EmptyEntry
<1>10. \A h \in Relevant(G) : UpTo(e, h) => Covers(e, h) \/ Reached(bo[1], h)
  <2>0. Covers(e, e)
    BY <1>0, EntryFields, SMT, Z3 DEF Covers, Entry, MLAI
  <2> SUFFICES ASSUME NEW h \in Relevant(G), UpTo(e, h), h # e PROVE Reached(bo[1], h)
    BY <2>0
  <2>1. h \in Relevant(H) /\ h \in H
    BY <1>7 DEF Relevant
  <2>2. h.epoch = closer.epoch
    BY <1>0, <1>1, <1>2, <1>3, <2>1, SMT, Z3 DEF UpTo
  <2> QED
    BY <2>1, <2>2 DEF IInv, OriginComplete, OriginHas
<1>11. BucketsGapless'
  <2>1. ASSUME NEW n \in Node, NEW i \in 1 .. NumBuckets
        PROVE  Known(G, storage[n][i]) /\ GaplessEntry(G, storage[n][i])
    <3>1. /\ Known(H, storage[n][i]) /\ GaplessEntry(H, storage[n][i])
          /\ storage[n][i] \in Entry
      BY BucketFields DEF IInv, BucketsGapless
    <3> QED
      BY <1>7, <1>8, <1>9, <3>1 DEF GaplessEntry
  <2>2. \A i \in 1 .. NumBuckets : Known(G, bo[i]) /\ GaplessEntry(G, bo[i])
    BY <2>1 DEF Node
  <2>3. \A i \in 1 .. NumBuckets : Known(G, Add(bo, e)[i]) /\ GaplessEntry(G, Add(bo, e)[i])
    BY <1>0, <1>8, <1>10, <2>2, AddGapless
  <2>4. /\ storage'["origin"] = Add(bo, e)
        /\ \A n \in Node : n # "origin" => storage'[n] = storage[n]
    BY <1>0 DEF IInv, TypeOK, Node
  <2> QED
    BY <2>1, <2>3, <2>4 DEF BucketsGapless
<1>12. ASSUME NEW h \in Relevant(G), Reached(bo[1], h) \/ Reached(e, h) PROVE OriginHas(h)'
  <2>1. Known(G, bo[1])
    BY <1>8, BucketFields DEF IInv, BucketsGapless, Node
  <2>2. Reached(Add(bo, e)[1], h)
    BY <1>0, <1>5, <1>8, <1>12, <2>1, AddReaches
  <2>3. storage'["origin"] = Add(bo, e)
    BY <1>0 DEF IInv, TypeOK, Node
  <2> QED
    BY <2>2, <2>3 DEF OriginHas
<1>13. OriginComplete'
  <2> SUFFICES ASSUME NEW h \in Relevant(G)
               PROVE  /\ h.epoch = e.epoch => OriginHas(h)'
                      /\ Reached(e, h) => OriginHas(h)'
                      /\ \A c \in DOMAIN conn : conn[c].state = "registered" =>
                           \A j \in DOMAIN conn[c].out :
                             Reached(conn[c].out[j], h) => OriginHas(h)'
    BY <1>0 DEF OriginComplete
  <2>1. CASE h = e
    <3>1. OriginHas(h)'
      BY <1>0, <1>12, <2>1, SMTT(30), Z3 DEF Reached
    <3> QED
      BY <3>1
  <2>2. CASE h # e
    <3>1. h \in Relevant(H) /\ h \in H
      BY <1>7, <2>2 DEF Relevant
    <3>2. OriginHas(h) => OriginHas(h)'
      BY <1>12 DEF OriginHas
    <3>3. h.epoch = e.epoch => h.epoch = closer.epoch
      BY <1>0, <1>1, <1>2, <1>3, <3>1, SMT, Z3
    <3> QED
      BY <1>12, <3>1, <3>2, <3>3 DEF IInv, OriginComplete
  <2> QED
    BY <2>1, <2>2
<1>14. /\ \A h : FollowerHas(h)' = FollowerHas(h)
       /\ \A c, h, n : OnItsWay(c, h, n)' = OnItsWay(c, h, n)
  <2>1. storage'["follower"] = storage["follower"]
    BY <1>0 DEF IInv, TypeOK, Node
  <2> QED
    BY <1>0, <2>1 DEF FollowerHas, OnItsWay
<1>15. HandedGapless'
  <2> SUFFICES ASSUME NEW c \in DOMAIN conn, NEW x \in conn[c].handed
               PROVE  /\ Known(G, x)
                      /\ \A h \in Relevant(G) : UpTo(x, h) => Covers(x, h) \/ FollowerHas(h)
    BY <1>0, <1>14 DEF HandedGapless
  <2>1. x \in Entry /\ Known(H, x)
    BY ConnFields DEF IInv, HandedGapless
  <2> QED
    BY <1>7, <1>8, <1>9, <2>1 DEF IInv, HandedGapless
<1>16. StreamGapless'
  <2> SUFFICES ASSUME NEW c \in DOMAIN conn
               PROVE  /\ \A j \in DOMAIN conn[c].out : Known(G, conn[c].out[j])
                      /\ conn[c].state = "streaming" =>
                           /\ \A j \in DOMAIN conn[c].out : \A h \in Relevant(G) :
                                UpTo(conn[c].out[j], h) =>
                                  Covers(conn[c].out[j], h) \/ OnItsWay(c, h, j - 1)
                           /\ \A h \in Relevant(G) \ {e} :
                                h.epoch = e.epoch => OnItsWay(c, h, Len(conn[c].out))
    BY <1>0, <1>14 DEF StreamGapless
  <2>1. \A j \in DOMAIN conn[c].out : conn[c].out[j] \in Entry /\ Known(H, conn[c].out[j])
    BY ConnFields DEF IInv, StreamGapless
  <2>2. ASSUME conn[c].state = "streaming", NEW h \in Relevant(G) \ {e}, h.epoch = e.epoch
        PROVE  OnItsWay(c, h, Len(conn[c].out))
    <3>1. h \in Relevant(H) /\ h \in H
      BY <1>7 DEF Relevant
    <3>2. h.epoch = closer.epoch /\ h \notin notifying
      BY <1>0, <1>1, <1>2, <1>3, <2>2, <3>1, SMT, Z3 DEF CloseAndAdd
    <3> QED
      BY <2>2, <3>1, <3>2 DEF IInv, StreamGapless
  <2>3. ASSUME conn[c].state = "streaming", NEW j \in DOMAIN conn[c].out,
               NEW h \in Relevant(G), UpTo(conn[c].out[j], h)
        PROVE  Covers(conn[c].out[j], h) \/ OnItsWay(c, h, j - 1)
    <3>1. h \in Relevant(H)
      BY <1>7, <1>9, <2>1, <2>3
    <3> QED
      BY <2>3, <3>1 DEF IInv, StreamGapless
  <2> QED
    BY <1>8, <2>1, <2>2, <2>3
<1>17. OneHanded'
  BY <1>0 DEF IInv, OneHanded
<1> QED
  BY <1>4, <1>6, <1>11, <1>13, <1>15, <1>16, <1>17 DEF IInv

\* The second half of Notify.
LEMMA NotifyStep ==
  ASSUME IInv, Notify PROVE IInv'
<1>0. PICK e \in notifying :
        /\ conn' = [c \in DOMAIN conn |->
             IF Live(c) THEN [conn[c] EXCEPT !.out = Append(@, e)] ELSE conn[c]]
        /\ notifying' = {} /\ UNCHANGED <<storage, closer, history>>
  BY DEF Notify
<1>1. /\ notifying = {e} /\ e \in history /\ e \in Entry /\ e.epoch = closer.epoch
      /\ e.epoch \in Nat /\ e.ts \in Nat
  BY HistoryFields DEF IInv, TypeOK, HistoryOrder
<1>2. DOMAIN conn' = DOMAIN conn
  BY <1>0
\* What becomes of one stream.
<1>3. ASSUME NEW c \in DOMAIN conn
      PROVE  /\ conn'[c].state = conn[c].state /\ conn'[c].handed = conn[c].handed
             /\ conn'[c] \in Conn
             /\ ~Live(c) => conn'[c].out = conn[c].out
             /\ Live(c) =>
                  /\ DOMAIN conn'[c].out = 1 .. (Len(conn[c].out) + 1)
                  /\ Len(conn'[c].out) = Len(conn[c].out) + 1
                  /\ \A j \in DOMAIN conn[c].out : conn'[c].out[j] = conn[c].out[j]
                  /\ conn'[c].out[Len(conn[c].out) + 1] = e
  <2> DEFINE s == conn[c].out
  <2>1. conn[c] \in Conn /\ s \in Seq(Entry)
    BY ConnFields DEF IInv
  <2>2. CASE ~Live(c)
    BY <1>0, <2>1, <2>2
  <2>3. CASE Live(c)
    <3>1. conn'[c] = [conn[c] EXCEPT !.out = Append(s, e)]
      BY <1>0, <2>3
    <3>2. /\ Append(s, e) \in Seq(Entry) /\ Len(Append(s, e)) = Len(s) + 1
          /\ DOMAIN Append(s, e) = 1 .. (Len(s) + 1)
          /\ \A j \in DOMAIN s : Append(s, e)[j] = s[j]
          /\ Append(s, e)[Len(s) + 1] = e
      BY <1>1, <2>1, AppendProperties, SMT, Z3
    <3>3. conn'[c] \in Conn /\ conn'[c].out = Append(s, e)
          /\ conn'[c].state = conn[c].state /\ conn'[c].handed = conn[c].handed
      BY <2>1, <3>1, <3>2 DEF Conn
    <3> QED
      BY <2>3, <3>2, <3>3
  <2> QED
    BY <2>2, <2>3
<1>4. TypeOK'
  <2>1. conn' \in Seq(Conn)
    BY <1>0, <1>2, <1>3, SameLength DEF IInv
  <2> QED
    BY <1>0, <2>1 DEF IInv, TypeOK
<1>5. HistoryOrder' /\ BucketsGapless'
  BY <1>0 DEF IInv, HistoryOrder, BucketsGapless
<1>6. \A h : FollowerHas(h)' = FollowerHas(h) /\ OriginHas(h)' = OriginHas(h)
  BY <1>0 DEF FollowerHas, OriginHas
<1>7. OriginComplete'
  <2> SUFFICES ASSUME NEW h \in Relevant(history), NEW c \in DOMAIN conn,
                      conn[c].state = "registered", NEW j \in DOMAIN conn'[c].out,
                      Reached(conn'[c].out[j], h)
               PROVE  OriginHas(h)
    BY <1>0, <1>2, <1>3, <1>6, SMT, Z3 DEF IInv, OriginComplete
  <2>1. Live(c) /\ DOMAIN conn[c].out = 1 .. Len(conn[c].out) /\ Len(conn[c].out) \in Nat
    BY ConnFields DEF Live, IInv
  <2>2. CASE j \in DOMAIN conn[c].out
    BY <1>3, <2>1, <2>2 DEF IInv, OriginComplete
  <2>3. CASE j = Len(conn[c].out) + 1
    BY <1>3, <2>1, <2>3 DEF IInv, OriginComplete
  <2> QED
    BY <1>3, <2>1, <2>2, <2>3, SMTT(30), Z3
<1>8. OneHanded' /\ HandedGapless'
  BY <1>0, <1>2, <1>3, <1>6, SMT, Z3 DEF IInv, OneHanded, HandedGapless
\* Whatever was on its way still is.
<1>9. ASSUME NEW c \in DOMAIN conn, NEW h, NEW n \in Nat, n <= Len(conn[c].out), OnItsWay(c, h, n)
      PROVE  OnItsWay(c, h, n)'
  <2>1. DOMAIN conn[c].out = 1 .. Len(conn[c].out) /\ Len(conn[c].out) \in Nat
    BY ConnFields DEF IInv
  <2>2. CASE \E i \in DOMAIN conn[c].out : i <= n /\ Reached(conn[c].out[i], h)
    <3>1. PICK i \in DOMAIN conn[c].out : i <= n /\ Reached(conn[c].out[i], h)
      BY <2>2
    <3>2. i \in DOMAIN conn'[c].out /\ conn'[c].out[i] = conn[c].out[i]
      BY <1>3, <2>1, SMT, Z3
    <3> QED
      BY <3>1, <3>2 DEF OnItsWay
  <2> QED
    BY <1>3, <1>6, <1>9, <2>2 DEF OnItsWay
<1>10. StreamGapless'
  <2> SUFFICES ASSUME NEW c \in DOMAIN conn
               PROVE  /\ \A j \in DOMAIN conn'[c].out : Known(history, conn'[c].out[j])
                      /\ conn[c].state = "streaming" =>
                           /\ \A j \in DOMAIN conn'[c].out : \A h \in Relevant(history) :
                                UpTo(conn'[c].out[j], h) =>
                                  Covers(conn'[c].out[j], h) \/ OnItsWay(c, h, j - 1)'
                           /\ \A h \in Relevant(history) : h.epoch = closer.epoch =>
                                OnItsWay(c, h, Len(conn[c].out))'
    BY <1>0, <1>2, <1>3 DEF StreamGapless
  <2> DEFINE s == conn[c].out  t == conn'[c].out
  <2>1. PICK n \in Nat : n = Len(s) /\ DOMAIN s = 1 .. n
    BY ConnFields DEF IInv
  <2>2. \A j \in DOMAIN s : Known(history, s[j])
    BY DEF IInv, StreamGapless
  <2>3. \A j \in DOMAIN t : Known(history, t[j])
    <3>1. CASE Live(c)
      <4>1. \A j \in DOMAIN t : j \in DOMAIN s \/ j = n + 1
        BY <1>3, <2>1, <3>1, SMTT(30), Z3
      <4>2. Known(history, e)
        BY <1>1 DEF Known
      <4> QED
        BY <1>3, <2>1, <2>2, <3>1, <4>1, <4>2
    <3> QED
      BY <1>3, <2>2, <3>1
  <2>4. ASSUME conn[c].state = "streaming"
        PROVE  /\ \A j \in DOMAIN t : \A h \in Relevant(history) :
                    UpTo(t[j], h) => Covers(t[j], h) \/ OnItsWay(c, h, j - 1)'
               /\ \A h \in Relevant(history) : h.epoch = closer.epoch =>
                    OnItsWay(c, h, n + 1)'
    <3>1. /\ DOMAIN t = 1 .. (n + 1) /\ \A j \in DOMAIN s : t[j] = s[j]
          /\ t[n + 1] = e
      BY <1>3, <2>1, <2>4 DEF Live
    <3>2. ASSUME NEW h \in Relevant(history), h.epoch = closer.epoch, h # e
          PROVE  OnItsWay(c, h, n)
      BY <1>1, <2>1, <2>4, <3>2 DEF IInv, StreamGapless
    <3>3. ASSUME NEW j \in DOMAIN t, NEW h \in Relevant(history), UpTo(t[j], h)
          PROVE  Covers(t[j], h) \/ OnItsWay(c, h, j - 1)'
      <4>1. CASE j \in DOMAIN s
        <5>1. Covers(s[j], h) \/ OnItsWay(c, h, j - 1)
          BY <2>4, <3>1, <3>3, <4>1 DEF IInv, StreamGapless
        <5>2. j - 1 \in Nat /\ j - 1 <= n
          BY <2>1, <4>1, SMT, Z3
        <5> QED
          BY <1>9, <3>1, <4>1, <5>1, <5>2, SMT, Z3
      <4>2. CASE j = n + 1 /\ h = e
        BY <1>1, <3>1, <4>2, EntryFields, SMT, Z3 DEF Covers, Entry, MLAI
      <4>3. CASE j = n + 1 /\ h # e
        <5>1. h.epoch = closer.epoch
          BY <1>1, <3>1, <3>3, <4>3 DEF UpTo
        <5>2. OnItsWay(c, h, n)' /\ j - 1 = n
          BY <1>9, <2>1, <3>2, <4>3, <5>1, SMT, Z3
        <5> QED
          BY <5>2
      <4> QED
        BY <2>1, <3>1, <4>1, <4>2, <4>3, SMTT(30), Z3
    <3>4. ASSUME NEW h \in Relevant(history), h.epoch = closer.epoch
          PROVE  OnItsWay(c, h, n + 1)'
      <4>1. CASE h = e
        <5>1. n + 1 \in DOMAIN t /\ n + 1 <= n + 1 /\ Reached(t[n + 1], h)
          BY <1>1, <2>1, <3>1, <4>1, SMT, Z3 DEF Reached
        <5> QED
          BY <5>1 DEF OnItsWay
      <4>2. CASE h # e
        <5>1. OnItsWay(c, h, n)'
          BY <1>9, <2>1, <3>2, <3>4, <4>2, SMT, Z3
        <5> QED
          BY <2>1, <3>1, <5>1, SMT, Z3 DEF OnItsWay
      <4> QED
        BY <4>1, <4>2
    <3> QED
      BY <3>3, <3>4
  <2> QED
    BY <1>3, <2>1, <2>3, <2>4 DEF Live
<1> QED
  BY <1>4, <1>5, <1>7, <1>8, <1>10 DEF IInv

\* A new stream has nothing to send yet.
LEMMA SubscribeStep ==
  ASSUME IInv, Subscribe PROVE IInv'
<1> DEFINE new == [state |-> "registered", out |-> <<>>, handed |-> {}]
<1>0. conn' = Append(conn, new) /\ UNCHANGED <<storage, closer, notifying, history>>
  BY DEF Subscribe
<1>1. new \in Conn /\ conn \in Seq(Conn)
  BY SMT, Z3 DEF Conn, IInv, TypeOK
<1>2. /\ conn' \in Seq(Conn)
      /\ \A c \in DOMAIN conn' : (c \in DOMAIN conn /\ conn'[c] = conn[c]) \/ conn'[c] = new
  BY <1>0, <1>1, AppendProperties, SMT, Z3
<1>3. /\ \A h : FollowerHas(h)' = FollowerHas(h) /\ OriginHas(h)' = OriginHas(h)
      /\ \A c, h, n : conn'[c] = conn[c] => OnItsWay(c, h, n)' = OnItsWay(c, h, n)
  BY <1>0 DEF FollowerHas, OriginHas, OnItsWay
<1>4. TypeOK' /\ HistoryOrder' /\ BucketsGapless'
  BY <1>0, <1>2 DEF IInv, TypeOK, HistoryOrder, BucketsGapless
<1>5. OriginComplete'
  BY <1>0, <1>2, <1>3, SMTT(30), Z3 DEF IInv, OriginComplete
<1>6. OneHanded' /\ HandedGapless'
  BY <1>0, <1>2, <1>3, SMT, Z3 DEF IInv, OneHanded, HandedGapless
<1>7. StreamGapless'
  <2> SUFFICES ASSUME NEW c \in DOMAIN conn, conn'[c] = conn[c]
               PROVE  /\ \A j \in DOMAIN conn[c].out : Known(history, conn[c].out[j])
                      /\ conn[c].state = "streaming" =>
                           /\ \A j \in DOMAIN conn[c].out : \A h \in Relevant(history) :
                                UpTo(conn[c].out[j], h) =>
                                  Covers(conn[c].out[j], h) \/ OnItsWay(c, h, j - 1)
                           /\ \A h \in Relevant(history) \ notifying :
                                h.epoch = closer.epoch => OnItsWay(c, h, Len(conn[c].out))
    BY <1>0, <1>2, <1>3, SMT, Z3 DEF StreamGapless
  <2> QED
    BY DEF IInv, StreamGapless
<1> QED
  BY <1>4, <1>5, <1>6, <1>7 DEF IInv

\* A step that only changes one stream c, leaving its handed entries gapless,
\* keeps what the invariant says of everything else.
LEMMA OneStream ==
  ASSUME IInv, NEW c \in DOMAIN conn, NEW new \in Conn,
         conn' = [conn EXCEPT ![c] = new],
         UNCHANGED <<storage, closer, notifying, history>>,
         \A x, y \in new.handed : x = y,
         \A x \in new.handed :
           Known(history, x) /\ \A h \in Relevant(history) :
                                  UpTo(x, h) => Covers(x, h) \/ FollowerHas(h),
         new.state = "registered" => conn[c].state = "registered" /\ new.out = conn[c].out,
         \A j \in DOMAIN new.out : Known(history, new.out[j]),
         new.state = "streaming" =>
           /\ \A j \in DOMAIN new.out : \A h \in Relevant(history) :
                UpTo(new.out[j], h) =>
                  \/ Covers(new.out[j], h) \/ FollowerHas(h)
                  \/ \E x \in new.handed : Reached(x, h)
                  \/ \E i \in DOMAIN new.out : i <= j - 1 /\ Reached(new.out[i], h)
           /\ \A h \in Relevant(history) \ notifying : h.epoch = closer.epoch =>
                  \/ FollowerHas(h)
                  \/ \E x \in new.handed : Reached(x, h)
                  \/ \E i \in DOMAIN new.out : Reached(new.out[i], h)
  PROVE  IInv'
<1>1. /\ conn' \in Seq(Conn) /\ DOMAIN conn' = DOMAIN conn
      /\ conn'[c] = new /\ \A d \in DOMAIN conn : d # c => conn'[d] = conn[d]
  BY ExceptSeq, SameLength, SMT, Z3 DEF IInv, TypeOK
<1>2. \A h : FollowerHas(h)' = FollowerHas(h) /\ OriginHas(h)' = OriginHas(h)
  BY DEF FollowerHas, OriginHas
<1>3. TypeOK' /\ HistoryOrder' /\ BucketsGapless'
  BY <1>1 DEF IInv, TypeOK, HistoryOrder, BucketsGapless
<1>4. OriginComplete'
  <2> SUFFICES ASSUME NEW h \in Relevant(history), NEW d \in DOMAIN conn,
                      conn'[d].state = "registered", NEW j \in DOMAIN conn'[d].out,
                      Reached(conn'[d].out[j], h)
               PROVE  OriginHas(h)
    BY <1>1, <1>2, SMT, Z3 DEF IInv, OriginComplete
  <2>1. conn[d].state = "registered" /\ conn'[d].out = conn[d].out
    BY <1>1
  <2> QED
    BY <2>1 DEF IInv, OriginComplete
<1>5. OneHanded' /\ HandedGapless'
  BY <1>1, <1>2, SMT, Z3 DEF IInv, OneHanded, HandedGapless
<1>6. StreamGapless'
  <2> SUFFICES ASSUME NEW d \in DOMAIN conn
               PROVE  /\ \A j \in DOMAIN conn'[d].out : Known(history, conn'[d].out[j])
                      /\ conn'[d].state = "streaming" =>
                           /\ \A j \in DOMAIN conn'[d].out : \A h \in Relevant(history) :
                                UpTo(conn'[d].out[j], h) =>
                                  Covers(conn'[d].out[j], h) \/ OnItsWay(d, h, j - 1)'
                           /\ \A h \in Relevant(history) \ notifying :
                                h.epoch = closer.epoch => OnItsWay(d, h, Len(conn[d].out))'
    BY <1>1 DEF StreamGapless
  <2>1. CASE d = c
    <3>1. new.out \in Seq(Entry) /\ DOMAIN new.out = 1 .. Len(new.out) /\ Len(new.out) \in Nat
      BY SMT, Z3 DEF Conn
    <3> QED
      BY <1>1, <1>2, <2>1, <3>1, SMTT(30), Z3 DEF OnItsWay
  <2>2. CASE d # c
    <3>1. conn'[d] = conn[d] /\ \A h, n : OnItsWay(d, h, n)' = OnItsWay(d, h, n)
      BY <1>1, <1>2, <2>2 DEF OnItsWay
    <3> QED
      BY <3>1 DEF IInv, StreamGapless
  <2> QED
    BY <2>1, <2>2
<1> QED
  BY <1>3, <1>4, <1>5, <1>6 DEF IInv

\* The stream breaks, or the timer sends an empty entry.
LEMMA DisconnectStep ==
  ASSUME IInv, NEW c \in DOMAIN conn, Disconnect(c) PROVE IInv'
<1> DEFINE new == [conn[c] EXCEPT !.state = "closed", !.out = <<>>]
<1>1. /\ conn' = [conn EXCEPT ![c] = new]
      /\ UNCHANGED <<storage, closer, notifying, history>>
  BY DEF Disconnect
<1>2. /\ new \in Conn /\ new.state = "closed" /\ new.out = <<>> /\ DOMAIN new.out = {}
      /\ new.handed = conn[c].handed
  <2>1. conn[c] \in Conn /\ <<>> \in Seq(Entry) /\ DOMAIN <<>> = {}
    BY ConnFields, SMT, Z3 DEF IInv
  <2> QED
    BY <2>1 DEF Conn
<1>3. /\ \A x, y \in new.handed : x = y
      /\ \A x \in new.handed :
           Known(history, x) /\ \A h \in Relevant(history) :
                                  UpTo(x, h) => Covers(x, h) \/ FollowerHas(h)
  BY <1>2 DEF IInv, OneHanded, HandedGapless
<1> HIDE DEF new
<1> QED
  BY <1>1, <1>2, <1>3, OneStream

LEMMA RecvEmptyStep ==
  ASSUME IInv, NEW c \in DOMAIN conn, RecvEmpty(c) PROVE IInv'
<1> DEFINE new == [conn[c] EXCEPT !.handed = {EmptyEntry}]
<1>1. /\ conn' = [conn EXCEPT ![c] = new] /\ conn[c].handed = {}
      /\ UNCHANGED <<storage, closer, notifying, history>>
  BY DEF RecvEmpty
<1>2. /\ new \in Conn /\ new.state = conn[c].state /\ new.out = conn[c].out
      /\ new.handed = {EmptyEntry}
      /\ DOMAIN new.out = 1 .. Len(new.out)
  BY ConnFields, EmptyEntryType DEF IInv, Conn
<1>3. Known(history, EmptyEntry) /\ \A h \in Relevant(history) : ~UpTo(EmptyEntry, h)
  BY HistoryFields DEF Known, UpTo, EmptyEntry, Relevant, IInv, TypeOK
<1>4. \A j \in DOMAIN new.out : Known(history, new.out[j])
  BY <1>2 DEF IInv, StreamGapless
<1>5. ASSUME new.state = "streaming"
      PROVE  /\ \A j \in DOMAIN new.out : \A h \in Relevant(history) :
                  UpTo(new.out[j], h) =>
                    \/ Covers(new.out[j], h) \/ FollowerHas(h)
                    \/ \E i \in DOMAIN new.out : i <= j - 1 /\ Reached(new.out[i], h)
             /\ \A h \in Relevant(history) \ notifying : h.epoch = closer.epoch =>
                    \/ FollowerHas(h)
                    \/ \E i \in DOMAIN new.out : Reached(new.out[i], h)
  BY <1>1, <1>2, <1>5 DEF IInv, StreamGapless, OnItsWay
<1> HIDE DEF new
<1> QED
  BY <1>1, <1>2, <1>3, <1>4, <1>5, OneStream

\* Get sends an entry, and the client hands it over.
LEMMA RecvStep ==
  ASSUME IInv, NEW c \in DOMAIN conn, Recv(c) PROVE IInv'
<1> DEFINE s == conn[c].out
           new == [conn[c] EXCEPT !.out = Tail(s), !.handed = {Head(s)}]
<1>1. /\ conn' = [conn EXCEPT ![c] = new] /\ conn[c].handed = {}
      /\ conn[c].state = "streaming" /\ s # <<>>
      /\ UNCHANGED <<storage, closer, notifying, history>>
  BY DEF Recv
<1>2. /\ s \in Seq(Entry) /\ conn[c] \in Conn /\ Len(s) \in Nat /\ DOMAIN s = 1 .. Len(s)
      /\ 1 \in DOMAIN s /\ Head(s) = s[1] /\ Head(s) \in Entry
      /\ Tail(s) \in Seq(Entry) /\ DOMAIN Tail(s) = 1 .. (Len(s) - 1)
      /\ \A j \in DOMAIN Tail(s) : j + 1 \in DOMAIN s /\ Tail(s)[j] = s[j + 1]
  BY <1>1, ConnFields, HeadTailProperties, SMT, Z3 DEF IInv
<1>3. new \in Conn /\ new.state = "streaming" /\ new.out = Tail(s) /\ new.handed = {s[1]}
  BY <1>1, <1>2 DEF Conn
<1>4. /\ \A j \in DOMAIN s : Known(history, s[j])
      /\ \A j \in DOMAIN s : \A h \in Relevant(history) : UpTo(s[j], h) =>
           \/ Covers(s[j], h) \/ FollowerHas(h)
           \/ \E i \in DOMAIN s : i <= j - 1 /\ Reached(s[i], h)
      /\ \A h \in Relevant(history) \ notifying : h.epoch = closer.epoch =>
           FollowerHas(h) \/ \E i \in DOMAIN s : Reached(s[i], h)
  BY <1>1 DEF IInv, StreamGapless, OnItsWay
<1>5. ASSUME NEW h \in Relevant(history), UpTo(s[1], h)
      PROVE  Covers(s[1], h) \/ FollowerHas(h)
  <2>1. 1 \in DOMAIN s /\ \A i \in DOMAIN s : ~(i <= 1 - 1)
    BY <1>2, SMT, Z3
  <2> QED
    BY <1>4, <1>5, <2>1, Zenon
<1>6. \A h : \A i \in DOMAIN s : Reached(s[i], h) =>
        \/ Reached(s[1], h)
        \/ i - 1 \in DOMAIN Tail(s) /\ Reached(Tail(s)[i - 1], h)
  BY <1>2, SMT, Z3
<1>7. ASSUME NEW j \in DOMAIN Tail(s), NEW h \in Relevant(history), UpTo(Tail(s)[j], h)
      PROVE  \/ Covers(Tail(s)[j], h) \/ FollowerHas(h) \/ Reached(s[1], h)
             \/ \E i \in DOMAIN Tail(s) : i <= j - 1 /\ Reached(Tail(s)[i], h)
  <2>1. j + 1 \in DOMAIN s /\ Tail(s)[j] = s[j + 1]
    BY <1>2
  <2>2. \/ Covers(s[j + 1], h) \/ FollowerHas(h)
        \/ \E i \in DOMAIN s : i <= (j + 1) - 1 /\ Reached(s[i], h)
    BY <1>4, <1>7, <2>1
  <2>3. ASSUME NEW i \in DOMAIN s, i <= (j + 1) - 1, Reached(s[i], h)
        PROVE  \/ Reached(s[1], h)
               \/ \E k \in DOMAIN Tail(s) : k <= j - 1 /\ Reached(Tail(s)[k], h)
    <3>1. i - 1 <= j - 1
      BY <1>2, <2>3, SMT, Z3
    <3> QED
      BY <1>6, <2>3, <3>1
  <2> QED
    BY <2>1, <2>2, <2>3
<1>8. \A h \in Relevant(history) \ notifying : h.epoch = closer.epoch =>
        \/ FollowerHas(h) \/ Reached(s[1], h)
        \/ \E i \in DOMAIN Tail(s) : Reached(Tail(s)[i], h)
  BY <1>4, <1>6
<1>9. \A j \in DOMAIN Tail(s) : Known(history, Tail(s)[j])
  BY <1>2, <1>4
<1> HIDE DEF new
<1> QED
  BY <1>1, <1>2, <1>3, <1>4, <1>5, <1>7, <1>8, <1>9, OneStream

\* Subscribe's snapshot goes ahead of what was queued since it registered, and
\* its last entry has reached all of that.
LEMMA SnapshotStep ==
  ASSUME IInv, NEW c \in DOMAIN conn, Snapshot(c) PROVE IInv'
<1> DEFINE s == conn[c].out  b == storage["origin"]  v == VisitAscending(b)
           new == [conn[c] EXCEPT !.state = "streaming", !.out = v \o s]
<1>1. /\ conn' = [conn EXCEPT ![c] = new] /\ conn[c].state = "registered"
      /\ UNCHANGED <<storage, closer, notifying, history>>
  BY DEF Snapshot
<1>2. b \in Buckets /\ \A i \in 1 .. NumBuckets : b[i] \in Entry
  BY BucketFields DEF IInv, Node
<1>3. Sees(b, v, NumBuckets)
  BY <1>2, VisitSees
<1> HIDE DEF v
<1>4. /\ s \in Seq(Entry) /\ conn[c] \in Conn /\ v \in Seq(Entry)
      /\ Len(s) \in Nat /\ Len(v) \in Nat /\ DOMAIN s = 1 .. Len(s) /\ DOMAIN v = 1 .. Len(v)
  BY <1>3, ConnFields, SMT, Z3 DEF IInv, Sees
<1>5. /\ v \o s \in Seq(Entry) /\ DOMAIN (v \o s) = 1 .. (Len(v) + Len(s))
      /\ \A j \in 1 .. (Len(v) + Len(s)) :
           (v \o s)[j] = IF j <= Len(v) THEN v[j] ELSE s[j - Len(v)]
  BY <1>4, ConcatProperties, LenProperties, SMT, Z3
<1>6. new \in Conn /\ new.state = "streaming" /\ new.out = v \o s /\ new.handed = conn[c].handed
  BY <1>4, <1>5 DEF Conn
<1> DEFINE t == v \o s
<1> HIDE DEF new, t
<1>7. \A j \in DOMAIN v : Known(history, v[j]) /\ GaplessEntry(history, v[j])
  BY <1>3 DEF Sees, IInv, BucketsGapless, Node
<1>8. \A j \in DOMAIN s : Known(history, s[j])
  BY DEF IInv, StreamGapless
<1>9. \A j \in DOMAIN t : \/ j \in DOMAIN v /\ t[j] = v[j]
                          \/ j > Len(v) /\ j - Len(v) \in DOMAIN s /\ t[j] = s[j - Len(v)]
  BY <1>4, <1>5, SMT, Z3 DEF t
<1>10. ASSUME NEW h \in Relevant(history), OriginHas(h)
       PROVE  \E i \in DOMAIN t : i <= Len(v) /\ Reached(t[i], h)
  <2>1. b[1].epoch # 0
    <3>1. b[1] \in Entry /\ b[1].epoch \in Nat
      BY <1>2, StreamConstants, EntryFields, SMT, Z3
    <3>2. h \in history /\ h.epoch \in Nat \ {0}
      BY HistoryFields DEF Relevant, IInv, TypeOK
    <3> QED
      BY <1>10, <3>1, <3>2, SMT, Z3 DEF OriginHas, Reached
  <2>2. PICK i \in DOMAIN v : v[i] = b[1]
    BY <1>3, <2>1, StreamConstants, SMT, Z3 DEF Sees
  <2>3. i \in DOMAIN t /\ i <= Len(v) /\ t[i] = b[1]
    BY <1>4, <1>5, <2>2, SMT, Z3 DEF t
  <2> QED
    BY <1>10, <2>3 DEF OriginHas
<1>11. \A j \in DOMAIN t : Known(history, t[j])
  BY <1>7, <1>8, <1>9
<1>12. ASSUME NEW j \in DOMAIN t, NEW h \in Relevant(history), UpTo(t[j], h)
       PROVE  Covers(t[j], h) \/ \E i \in DOMAIN t : i <= j - 1 /\ Reached(t[i], h)
  <2>1. CASE j \in DOMAIN v /\ t[j] = v[j]
    BY <1>7, <1>12, <2>1 DEF GaplessEntry
  <2>2. CASE j > Len(v) /\ j - Len(v) \in DOMAIN s /\ t[j] = s[j - Len(v)]
    <3>1. Reached(s[j - Len(v)], h)
      BY <1>12, <2>2 DEF UpTo, Reached
    <3>2. OriginHas(h)
      BY <1>1, <2>2, <3>1 DEF IInv, OriginComplete
    <3>3. PICK i \in DOMAIN t : i <= Len(v) /\ Reached(t[i], h)
      BY <1>10, <3>2
    <3>4. i <= j - 1
      BY <1>4, <1>5, <2>2, <3>3, SMT, Z3 DEF t
    <3> QED
      BY <3>3, <3>4
  <2> QED
    BY <1>9, <2>1, <2>2
<1>13. \A h \in Relevant(history) : h.epoch = closer.epoch => \E i \in DOMAIN t : Reached(t[i], h)
  BY <1>10 DEF IInv, OriginComplete
<1>14. /\ \A x, y \in new.handed : x = y
       /\ \A x \in new.handed :
            Known(history, x) /\ \A h \in Relevant(history) :
                                   UpTo(x, h) => Covers(x, h) \/ FollowerHas(h)
  BY <1>6 DEF IInv, OneHanded, HandedGapless
<1>15. new.out = t
  BY <1>6 DEF t
<1> QED
  BY <1>1, <1>6, <1>11, <1>12, <1>13, <1>14, <1>15, OneStream

\* The goroutine that adds what the follower was handed, however late.
LEMMA FollowerAddStep ==
  ASSUME IInv, DistinctWallTimes, NEW c \in DOMAIN conn, FollowerAdd(c) PROVE IInv'
<1> DEFINE b == storage["follower"]
<1>0. PICK e \in conn[c].handed :
        /\ storage' = [storage EXCEPT !["follower"] = Add(b, e)]
        /\ conn' = [conn EXCEPT ![c].handed = {}]
        /\ UNCHANGED <<closer, notifying, history>>
  BY DEF FollowerAdd
<1>1. /\ e \in Entry /\ Known(history, e) /\ history \in SUBSET Produced /\ Ordered(history)
      /\ \A h \in Relevant(history) : UpTo(e, h) => Covers(e, h) \/ Reached(b[1], h)
  BY ConnFields DEF IInv, TypeOK, HistoryOrder, HandedGapless, FollowerHas
<1>2. /\ b \in Buckets /\ 1 \in 1 .. NumBuckets
      /\ \A i \in 1 .. NumBuckets : Known(history, b[i]) /\ GaplessEntry(history, b[i])
  BY BucketFields DEF IInv, BucketsGapless, Node
<1>3. /\ storage'["follower"] = Add(b, e) /\ storage'["origin"] = storage["origin"]
      /\ storage' \in [Node -> Buckets]
  BY <1>0, <1>1, <1>2, AddShape DEF IInv, TypeOK, Node
<1>4. /\ DOMAIN conn' = DOMAIN conn /\ conn' \in Seq(Conn)
      /\ \A d \in DOMAIN conn : /\ conn'[d].state = conn[d].state /\ conn'[d].out = conn[d].out
                                /\ conn'[d].handed = IF d = c THEN {} ELSE conn[d].handed
  <2>1. conn[c] \in Conn /\ [conn[c] EXCEPT !.handed = {}] \in Conn
    BY ConnFields DEF IInv, Conn
  <2>2. conn' = [d \in DOMAIN conn |-> conn'[d]] /\ \A d \in DOMAIN conn : conn'[d] \in Conn
    BY <1>0, <2>1, ConnFields DEF IInv
  <2>3. \A d \in DOMAIN conn : conn'[d] = IF d = c THEN [conn[c] EXCEPT !.handed = {}] ELSE conn[d]
    BY <1>0
  <2> QED
    BY <2>1, <2>2, <2>3, SameLength, ConnFields DEF IInv, Conn
<1>5. ASSUME NEW h \in Relevant(history), FollowerHas(h) \/ Reached(e, h) PROVE FollowerHas(h)'
  <2>1. Reached(Add(b, e)[1], h)
    BY <1>1, <1>2, <1>5, AddReaches DEF FollowerHas, DistinctWallTimes
  <2> QED
    BY <1>3, <2>1 DEF FollowerHas
<1>6. TypeOK' /\ HistoryOrder'
  BY <1>0, <1>3, <1>4 DEF IInv, TypeOK, HistoryOrder
<1>7. BucketsGapless'
  <2>1. \A i \in 1 .. NumBuckets :
          Known(history, Add(b, e)[i]) /\ GaplessEntry(history, Add(b, e)[i])
    BY <1>1, <1>2, AddGapless
  <2> QED
    BY <1>0, <1>3, <2>1 DEF IInv, BucketsGapless, Node
<1>8. OriginComplete'
  BY <1>0, <1>3, <1>4, SMT, Z3 DEF IInv, OriginComplete, OriginHas
<1>9. OneHanded' /\ HandedGapless'
  BY <1>0, <1>4, <1>5, SMT, Z3 DEF IInv, OneHanded, HandedGapless
<1>10. ASSUME NEW d \in DOMAIN conn, NEW h \in Relevant(history), NEW n, OnItsWay(d, h, n)
       PROVE  OnItsWay(d, h, n)'
  <2>1. CASE FollowerHas(h)
    BY <1>5, <2>1 DEF OnItsWay
  <2>2. CASE \E x \in conn[d].handed : Reached(x, h)
    <3>1. CASE d = c /\ Reached(e, h)
      BY <1>5, <3>1 DEF OnItsWay
    <3>2. CASE d # c
      BY <1>4, <2>2, <3>2 DEF OnItsWay
    <3>3. CASE d = c /\ ~Reached(e, h)
      <4>1. conn[c].handed = {e}
        BY SMT, Z3 DEF IInv, OneHanded
      <4> QED
        BY <2>2, <3>3, <4>1
    <3> QED
      BY <3>1, <3>2, <3>3
  <2>3. CASE \E i \in DOMAIN conn[d].out : i <= n /\ Reached(conn[d].out[i], h)
    BY <1>4, <2>3 DEF OnItsWay
  <2> QED
    BY <1>10, <2>1, <2>2, <2>3 DEF OnItsWay
<1>11. StreamGapless'
  <2> SUFFICES ASSUME NEW d \in DOMAIN conn
               PROVE  /\ \A j \in DOMAIN conn[d].out : Known(history, conn[d].out[j])
                      /\ conn[d].state = "streaming" =>
                           /\ \A j \in DOMAIN conn[d].out : \A h \in Relevant(history) :
                                UpTo(conn[d].out[j], h) =>
                                  Covers(conn[d].out[j], h) \/ OnItsWay(d, h, j - 1)'
                           /\ \A h \in Relevant(history) \ notifying :
                                h.epoch = closer.epoch => OnItsWay(d, h, Len(conn[d].out))'
    BY <1>0, <1>4 DEF StreamGapless
  <2>1. PICK n \in Nat : n = Len(conn[d].out) /\ Len(conn'[d].out) = n
    BY <1>4, ConnFields DEF IInv
  <2> QED
    BY <1>10, <2>1 DEF IInv, StreamGapless
<1> QED
  BY <1>6, <1>7, <1>8, <1>9, <1>11 DEF IInv

\* The follower restarts: its storage is empty and it has no stream.
LEMMA FollowerRestartStep ==
  ASSUME IInv, FollowerRestart PROVE IInv'
<1> DEFINE shut == [state |-> "closed", out |-> <<>>, handed |-> {}]
<1>0. /\ storage' = [storage EXCEPT !["follower"] = NoBuckets]
      /\ conn' = [c \in DOMAIN conn |-> shut]
      /\ UNCHANGED <<closer, notifying, history>>
  BY DEF FollowerRestart
<1>1. shut \in Conn /\ conn' \in Seq(Conn) /\ \A c \in DOMAIN conn' : conn'[c] = shut
  <2>1. shut \in Conn
    BY SMT, Z3 DEF Conn
  <2> QED
    BY <1>0, <2>1, SameLength DEF IInv
<1>2. /\ storage'["origin"] = storage["origin"] /\ storage'["follower"] = NoBuckets
      /\ storage' \in [Node -> Buckets]
  BY <1>0, EmptyEntryType DEF IInv, TypeOK, Node
<1>3. TypeOK' /\ HistoryOrder'
  BY <1>0, <1>1, <1>2 DEF IInv, TypeOK, HistoryOrder
<1>4. BucketsGapless'
  BY <1>0, <1>2, EmptyGapless DEF IInv, BucketsGapless, Node, NoBuckets
<1>5. OriginComplete'
  BY <1>0, <1>1, <1>2 DEF IInv, OriginComplete, OriginHas
<1>6. OneHanded' /\ HandedGapless' /\ StreamGapless'
  BY <1>1, SMT, Z3 DEF OneHanded, HandedGapless, StreamGapless
<1> QED
  BY <1>3, <1>4, <1>5, <1>6 DEF IInv

\* The origin restarts under a new epoch, of which it has produced nothing yet.
LEMMA OriginRestartStep ==
  ASSUME IInv, OriginRestart PROVE IInv'
<1>0. /\ storage' = [storage EXCEPT !["origin"] = NoBuckets]
      /\ closer' = [closer EXCEPT !.epoch = @ + 1] /\ closer.epoch < MaxEpoch
      /\ notifying' = {} /\ history' = history
      /\ conn' = [c \in DOMAIN conn |-> [conn[c] EXCEPT !.state = "closed", !.out = <<>>]]
  BY DEF OriginRestart
<1>1. ASSUME NEW c \in DOMAIN conn
      PROVE  /\ conn'[c] \in Conn /\ conn'[c].state = "closed" /\ DOMAIN conn'[c].out = {}
             /\ conn'[c].handed = conn[c].handed
  <2>1. conn[c] \in Conn /\ <<>> \in Seq(Entry) /\ DOMAIN <<>> = {}
    BY ConnFields, SMT, Z3 DEF IInv
  <2>2. conn'[c] = [conn[c] EXCEPT !.state = "closed", !.out = <<>>]
    BY <1>0
  <2> QED
    BY <2>1, <2>2 DEF Conn
<1>2. conn' \in Seq(Conn) /\ DOMAIN conn' = DOMAIN conn
  BY <1>0, <1>1, SameLength DEF IInv
<1>3. /\ storage'["follower"] = storage["follower"] /\ storage'["origin"] = NoBuckets
      /\ storage' \in [Node -> Buckets]
  BY <1>0, EmptyEntryType DEF IInv, TypeOK, Node
<1>4. /\ closer.epoch \in Nat /\ closer.lastEpoch \in Nat
      /\ closer'.epoch = closer.epoch + 1 /\ closer'.lastEpoch = closer.lastEpoch
      /\ closer'.ts = closer.ts
      /\ closer' \in [epoch : 1 .. MaxEpoch, lastEpoch : 1 .. MaxEpoch, ts : 0 .. MaxTS]
  <2>1. closer \in [epoch : 1 .. MaxEpoch, lastEpoch : 1 .. MaxEpoch, ts : 0 .. MaxTS]
    BY DEF IInv, TypeOK
  <2>2. closer.epoch \in Nat /\ closer.lastEpoch \in Nat /\ closer.epoch + 1 \in 1 .. MaxEpoch
    <3>1. closer.epoch \in 1 .. MaxEpoch /\ closer.lastEpoch \in 1 .. MaxEpoch
      BY <2>1
    <3>2. closer.epoch < MaxEpoch /\ MaxEpoch \in Nat
      BY <1>0, StreamConstants
    <3> QED
      BY <3>1, <3>2, SMT, Z3
  <2> QED
    BY <1>0, <2>1, <2>2
<1>5. TypeOK' /\ HistoryOrder'
  <2>1. TypeOK'
    BY <1>0, <1>2, <1>3, <1>4 DEF IInv, TypeOK
  <2>2. closer'.lastEpoch <= closer'.epoch
    BY <1>4, SMT, Z3 DEF IInv, HistoryOrder
  <2> QED
    BY <1>0, <1>4, <2>1, <2>2 DEF IInv, HistoryOrder
<1>6. BucketsGapless'
  BY <1>0, <1>3, EmptyGapless DEF IInv, BucketsGapless, Node, NoBuckets
<1>7. OriginComplete'
  <2>1. \A h \in Relevant(history) : h.epoch # closer'.epoch
    <3> SUFFICES ASSUME NEW h \in Relevant(history) PROVE h.epoch # closer.epoch + 1
      BY <1>4
    <3>1. h.epoch \in Nat /\ h.epoch <= closer.lastEpoch /\ closer.lastEpoch <= closer.epoch
      BY HistoryFields DEF IInv, TypeOK, HistoryOrder, Relevant
    <3> QED
      BY <1>4, <3>1, SMT, Z3
  <2> QED
    BY <1>0, <1>1, <1>2, <2>1 DEF OriginComplete
<1>8. OneHanded' /\ HandedGapless'
  <2>1. \A h : FollowerHas(h)' = FollowerHas(h)
    BY <1>3 DEF FollowerHas
  <2>2. \A c \in DOMAIN conn : conn'[c].handed = conn[c].handed
    BY <1>1
  <2> QED
    BY <1>0, <1>2, <2>1, <2>2 DEF IInv, OneHanded, HandedGapless
<1>9. StreamGapless'
  BY <1>1, <1>2 DEF StreamGapless
<1> QED
  BY <1>5, <1>6, <1>7, <1>8, <1>9 DEF IInv

LEMMA StepIInv == IInv /\ DistinctWallTimes /\ DistinctWallTimes' /\ [Next]_vars => IInv'
<1> SUFFICES ASSUME IInv, DistinctWallTimes, DistinctWallTimes', [Next]_vars PROVE IInv'
  OBVIOUS
<1>1. ASSUME NEW e \in Produced, CloseAndAdd(e) PROVE IInv'
  BY <1>1, CloseAndAddStep DEF DistinctWallTimes
<1>2. CASE Notify
  BY <1>2, NotifyStep
<1>3. CASE Subscribe
  BY <1>3, SubscribeStep
<1>4. ASSUME NEW c \in DOMAIN conn, Snapshot(c) PROVE IInv'
  BY <1>4, SnapshotStep
<1>5. ASSUME NEW c \in DOMAIN conn, Recv(c) PROVE IInv'
  BY <1>5, RecvStep
<1>6. ASSUME NEW c \in DOMAIN conn, RecvEmpty(c) PROVE IInv'
  BY <1>6, RecvEmptyStep
<1>7. ASSUME NEW c \in DOMAIN conn, FollowerAdd(c) PROVE IInv'
  BY <1>7, FollowerAddStep
<1>8. ASSUME NEW c \in DOMAIN conn, Disconnect(c) PROVE IInv'
  BY <1>8, DisconnectStep
<1>9. CASE FollowerRestart
  BY <1>9, FollowerRestartStep
<1>10. CASE OriginRestart
  BY <1>10, OriginRestartStep
<1>11. CASE UNCHANGED vars
  BY <1>11 DEF vars, IInv, TypeOK, HistoryOrder, BucketsGapless, OriginComplete, OriginHas,
               OneHanded, HandedGapless, FollowerHas, StreamGapless, OnItsWay
<1> QED
  BY <1>1, <1>2, <1>3, <1>4, <1>5, <1>6, <1>7, <1>8, <1>9, <1>10, <1>11 DEF Next, Stream

\* The inductive invariant holds as long as closed timestamps differ in their
\* wall times.
LEMMA IInvHolds == Spec /\ []DistinctWallTimes => []IInv
  BY InitIInv, StepIInv, PTL DEF Spec

-----------------------------------------------------------------------------
LEMMA IInvGapless == IInv => Gapless
<1> SUFFICES ASSUME IInv, NEW n \in Node, NEW i \in 1 .. NumBuckets, NEW r \in RangeID,
                    NEW h \in history, h.epoch = storage[n][i].epoch, h.ts <= storage[n][i].ts
             PROVE  h.mlai[r] <= storage[n][i].mlai[r]
  BY DEF Gapless, Required
<1>1. storage[n][i] \in Entry /\ GaplessEntry(history, storage[n][i])
  BY BucketFields DEF IInv, BucketsGapless
<1>2. /\ h.ts \in Nat /\ h.mlai[r] \in Nat /\ storage[n][i].ts \in Nat
      /\ storage[n][i].mlai[r] \in Nat
  BY <1>1, HistoryFields, EntryFields DEF IInv, TypeOK
<1>3. CASE h \in Relevant(history)
  BY <1>1, <1>2, <1>3 DEF GaplessEntry, UpTo, Covers
<1>4. CASE h \notin Relevant(history)
  <2>1. h.mlai[r] = 0
    BY <1>4 DEF Relevant, EmptyEntry
  <2> QED
    BY <1>2, <2>1, SMT, Z3
<1> QED
  BY <1>3, <1>4

(* Whatever a bucket says, on the origin and on the follower, is gapless,    *)
(* however streams break, entries are handed over late, snapshots race with  *)
(* the entries that are being queued, and processes restart: as long as the  *)
(* timestamps that are closed differ in their wall times, which is all that  *)
(* memStorage.Add compares.                                                  *)
THEOREM BucketsAreGapless == Spec /\ []DistinctWallTimes => []Gapless
  BY IInvGapless, IInvHolds, PTL

(* MaxClosed is sound: when it tells a replica that has applied up to a       *)
(* lease index that a timestamp is closed, nothing that was closed out up to *)
(* that timestamp is missing from the replica.                               *)
THEOREM FollowerReadsAreSound == Spec /\ []DistinctWallTimes => []MaxClosedSound
<1>1. IInv => MaxClosedSound
  <2> SUFFICES ASSUME IInv, NEW n \in Node, NEW r \in RangeID, NEW epoch \in 1 .. MaxEpoch,
                      NEW lai \in 1 .. MaxLAI, NEW h \in history, h.epoch = epoch,
                      h.ts <= MaxClosed(storage[n], r, epoch, lai)
               PROVE  h.mlai[r] <= lai
    BY DEF MaxClosedSound, Required
  <2> DEFINE b == storage[n]
             usable == {i \in 1 .. NumBuckets :
                          /\ \A j \in 1 .. i : b[j].epoch # 0
                          /\ b[i].mlai[r] # 0
                          /\ b[i].epoch = epoch /\ b[i].mlai[r] <= lai}
             first == CHOOSE i \in usable : \A j \in usable : i <= j
  <2>1. h.ts \in Nat /\ h.mlai[r] \in Nat /\ lai \in Nat
    <3>1. history \in SUBSET Produced /\ lai \in Nat
      BY StreamConstants, SMT, Z3 DEF IInv, TypeOK
    <3> QED
      BY <3>1, HistoryFields
  <2>2. MaxClosed(b, r, epoch, lai) = IF usable = {} THEN 0 ELSE b[first].ts
    BY DEF MaxClosed
  <2>3. CASE usable = {}
    <3>1. MaxClosed(b, r, epoch, lai) = 0
      BY <2>2, <2>3
    <3> HIDE DEF b, usable, first
    <3>2. h.ts = 0
      BY <2>1, <3>1, SMT, Z3 DEF b
    <3>3. WallTime(h.ts) = 0
      BY <3>2, WallTimes
    <3>4. h.mlai = EmptyEntry.mlai
      BY <3>3 DEF IInv, HistoryOrder, Ordered
    <3> QED
      BY <2>1, <3>4, SMT, Z3 DEF EmptyEntry
  <2>4. CASE usable # {}
    <3>1. first \in usable
      <4>1. usable \in SUBSET Nat
        BY SMT, Z3
      <4> HIDE DEF usable
      <4> QED
        BY <2>4, <4>1, LeastElement
    <3>2. first \in 1 .. NumBuckets /\ b[first].epoch = epoch /\ b[first].mlai[r] <= lai
      BY <3>1
    <3>3. h.ts <= b[first].ts
      BY <2>2, <2>4
    <3> HIDE DEF first, usable
    <3>4. b[first].epoch # 0 /\ h.mlai[r] \in Required(b[first].epoch, b[first].ts, r)
      BY <3>2, <3>3, SMT, Z3 DEF Required
    <3>5. h.mlai[r] <= b[first].mlai[r] /\ b[first].mlai[r] \in Nat
      <4>1. b[first] \in Entry
        BY <3>2, BucketFields DEF IInv
      <4>2. b[first].mlai[r] \in Nat
        BY <4>1, EntryFields
      <4> QED
        BY <3>2, <3>4, <4>2, IInvGapless DEF Gapless
    <3> QED
      BY <2>1, <3>2, <3>5, SMT, Z3
  <2> QED
    BY <2>3, <2>4
<1> QED
  BY <1>1, IInvHolds, PTL

(* Where a wall time has no logical ticks, as in the model that is checked,  *)
(* two timestamps that differ have different wall times.                     *)
THEOREM SoundByWallTime == ASSUME Ticks = 1 PROVE Spec => [](Gapless /\ MaxClosedSound)
<1> DEFINE Typed == history \in SUBSET Produced
<1>1. Init => Typed
  BY DEF Init
<1>2. Typed /\ [Next]_vars => Typed'
  BY DEF Next, vars, CloseAndAdd, Notify, Subscribe, Stream, Snapshot, Recv, RecvEmpty,
         FollowerAdd, Disconnect, FollowerRestart, OriginRestart
<1>3. Typed => DistinctWallTimes
  <2> SUFFICES ASSUME Typed, NEW g \in history, NEW h \in history, g.ts < h.ts
               PROVE  WallTime(g.ts) < WallTime(h.ts)
    BY DEF DistinctWallTimes, Distinct
  <2>1. g.ts \in Nat /\ h.ts \in Nat
    BY HistoryFields
  <2> QED
    BY <2>1, SMT, Z3 DEF WallTime
<1> QED
  BY <1>1, <1>2, <1>3, BucketsAreGapless, FollowerReadsAreSound, PTL DEF Spec

-----------------------------------------------------------------------------
(***************************************************************************)
(* Proofs about module ResolvedTimestamp, for any set of transactions and  *)
(* any timestamps.  Once it is initialized, the resolved timestamp is at   *)
(* all times the highest that is not above the closed one and below every  *)
(* tracked transaction; each operation reports exactly when it moves, and  *)
(* none of the assertions fails, provided that nothing is written at or    *)
(* below it.                                                               *)
(*                                                                         *)
(* The argument.  The methods of the queue say whether the oldest          *)
(* transaction changed.  If they say no, then the transaction that held    *)
(* the resolved timestamp back still does, or another one with the same    *)
(* timestamp takes its place (KeepsHolder); so that assertNoChange, which  *)
(* computes it again, finds what was there.                                *)
(***************************************************************************)

TxnEntry == [ts : Nat \ {0}, ref : Int]
Queue == UNION {[S -> TxnEntry] : S \in SUBSET Txn}
RTS == [init : BOOLEAN, closed : Nat, resolved : Nat, txns : Queue,
        allowNegRefCount : BOOLEAN, panic : BOOLEAN]
Op == [op : {"writeValue", "writeIntent", "updateIntent", "commitIntent", "abortIntent", "abortTxn"},
       txn : Txn, ts : Nat \ {0}]

\* A timestamp that nothing forbids, and one that something holds back.
Below(q, c, n) == n <= c /\ \A t \in DOMAIN q : n < q[t].ts
Holder(q, c, n) == n = c \/ \E t \in DOMAIN q : n = FloorPrev(q[t].ts)
Highest(q, c, n) == Below(q, c, n) /\ Holder(q, c, n)

\* The state of a processor whose initialization scan is done.
Settled(rts) ==
  /\ rts \in RTS
  /\ rts.init /\ ~rts.allowNegRefCount /\ ~rts.panic
  /\ Highest(rts.txns, rts.closed, rts.resolved)

\* The outcome of a method that found the resolved timestamp at n.
Advances(n, r) ==
  /\ Settled(r.rts)
  /\ r.rts.resolved >= n
  /\ r.adv <=> r.rts.resolved > n

\* What a queue holds.
LEMMA QueueType ==
  ASSUME NEW q \in Queue
  PROVE  /\ DOMAIN q \subseteq Txn
         /\ \A t \in DOMAIN q : q[t] \in TxnEntry /\ q[t].ts \in Nat \ {0} /\ t \in Nat
BY TxnIDs DEF Queue, TxnEntry

\* A queue that is not empty has an oldest transaction.
LEMMA OldestExists ==
  ASSUME NEW q \in Queue, DOMAIN q # {}
  PROVE  \E t \in DOMAIN q : IsOldest(q, t)
<1> DEFINE T == {q[t].ts : t \in DOMAIN q}
<1>0. \A t \in DOMAIN q : q[t].ts \in Nat \ {0} /\ t \in Nat
  BY QueueType
<1>1. \A S \in SUBSET Nat : S # {} => \E x \in S : \A y \in S : x <= y
  <2> SUFFICES ASSUME NEW S \in SUBSET Nat, S # {}
               PROVE  \E x \in S : \A y \in S : x <= y
    OBVIOUS
  <2> DEFINE R == OpToRel(<, Nat)
  <2>1. IsWellFoundedOn(R, Nat)
    BY NatLessThanWellFounded, Zenon
  <2>2. PICK x \in S : \A y \in S : ~(<<y, x>> \in R)
    <3> HIDE DEF R
    <3> QED
      BY <2>1, WFMin
  <2>3. \A y \in S : ~(y < x)
    BY <2>2 DEF OpToRel
  <2> QED
    BY <2>3, SMT, Z3
<1>2. PICK m \in T : \A y \in T : m <= y
  <2>1. T \in SUBSET Nat
    BY <1>0
  <2>2. T # {}
    OBVIOUS
  <2> HIDE DEF T
  <2> QED
    BY <1>1, <2>1, <2>2
<1> DEFINE U == {t \in DOMAIN q : q[t].ts = m}
<1>3. U # {} /\ U \in SUBSET Nat
  BY <1>0
<1>4. PICK t \in U : \A u \in U : t <= u
  BY <1>1, <1>3
<1>5. ASSUME NEW u \in DOMAIN q \ {t}
      PROVE  HeapLess(q, t, u)
  <2>1. m <= q[u].ts /\ q[t].ts = m /\ t \in Nat /\ u \in Nat /\ q[u].ts \in Nat /\ m \in Nat /\ u # t
    BY <1>0, <1>2, <1>4
  <2>2. CASE q[u].ts = m
    BY <1>4, <2>1, <2>2, SMT, Z3 DEF HeapLess
  <2> QED
    BY <2>1, <2>2, SMT, Z3 DEF HeapLess
<1> QED
  BY <1>4, <1>5 DEF IsOldest

\* What recompute computes: the highest timestamp that is allowed.
LEMMA RecomputeValue ==
  ASSUME NEW rts \in RTS, rts.init
  PROVE  \E n \in Int :
           /\ Highest(rts.txns, rts.closed, n)
           /\ n >= rts.resolved =>
                recompute(rts) = [rts |-> [rts EXCEPT !.resolved = n], adv |-> n > rts.resolved]
<1> DEFINE q == rts.txns
           old == {FloorPrev(q[t].ts) : t \in {u \in DOMAIN q : IsOldest(q, u)}}
           new == IF \E p \in old : p < rts.closed THEN CHOOSE p \in old : TRUE ELSE rts.closed
<1>0. /\ q \in Queue /\ rts.closed \in Nat /\ rts.resolved \in Nat
      /\ \A t \in DOMAIN q : q[t].ts \in Nat \ {0} /\ t \in Nat
  <2>1. q \in Queue /\ rts.closed \in Nat /\ rts.resolved \in Nat
    BY DEF RTS
  <2> QED
    BY <2>1, QueueType
<1>1. recompute(rts) =
        IF new < rts.resolved THEN [rts |-> [rts EXCEPT !.panic = TRUE], adv |-> FALSE]
        ELSE [rts |-> [rts EXCEPT !.resolved = new], adv |-> new > rts.resolved]
  BY DEF recompute
<1>2. new \in Int /\ Highest(q, rts.closed, new)
  <2>1. CASE DOMAIN q = {}
    BY <1>0, <2>1, SMT, Z3 DEF Highest, Below, Holder
  <2>2. CASE DOMAIN q # {}
    <3>1. PICK o \in DOMAIN q : IsOldest(q, o)
      BY <1>0, <2>2, OldestExists
    <3>2. \A u \in DOMAIN q : q[o].ts <= q[u].ts
      BY <1>0, <3>1, SMT, Z3 DEF IsOldest, HeapLess
    <3>3. \A u \in DOMAIN q : IsOldest(q, u) => q[u].ts = q[o].ts
      BY <1>0, <3>1, SMT, Z3 DEF IsOldest, HeapLess
    <3>4. old = {q[o].ts - 1}
      BY <3>1, <3>3 DEF FloorPrev
    <3>5. new = IF q[o].ts - 1 < rts.closed THEN q[o].ts - 1 ELSE rts.closed
      <4> HIDE DEF old
      <4> QED
        BY <3>4
    <3> HIDE DEF new, old
    <3>6. new \in Int
      BY <1>0, <3>5, SMTT(30), Z3
    <3>7. Below(q, rts.closed, new)
      BY <1>0, <3>2, <3>5, SMT, Z3 DEF Below
    <3>8. Holder(q, rts.closed, new)
      BY <3>5 DEF Holder, FloorPrev
    <3> QED
      BY <3>6, <3>7, <3>8 DEF Highest
  <2> QED
    BY <2>1, <2>2
<1> HIDE DEF new
<1>3. new >= rts.resolved =>
        recompute(rts) = [rts |-> [rts EXCEPT !.resolved = new], adv |-> new > rts.resolved]
  BY <1>0, <1>1, <1>2, SMT, Z3
<1> QED
  BY <1>2, <1>3

\* There is only one such timestamp, and none that is allowed is above it.
LEMMA HighestIsHighest ==
  ASSUME NEW q \in Queue, NEW c \in Nat, NEW n \in Int, Highest(q, c, n),
         NEW m \in Int, Below(q, c, m)
  PROVE  m <= n /\ (Holder(q, c, m) => m = n)
<1>1. \A t \in DOMAIN q : q[t].ts \in Nat
  BY QueueType
<1> QED
  BY <1>1, SMT, Z3 DEF Highest, Below, Holder, FloorPrev

\* Whatever happened to the queue and the closed timestamp: if it forbids
\* nothing that was resolved, and the flag says rightly whether something may
\* have moved, then the resolved timestamp is brought up to date and no
\* assertion fails.
LEMMA RecomputedSettles ==
  ASSUME NEW r \in [rts : RTS, adv : BOOLEAN],
         r.rts.init, ~r.rts.allowNegRefCount, ~r.rts.panic,
         Below(r.rts.txns, r.rts.closed, r.rts.resolved),
         r.adv \/ Holder(r.rts.txns, r.rts.closed, r.rts.resolved)
  PROVE  Advances(r.rts.resolved, Recomputed(r))
<1> DEFINE s == r.rts
           c == recompute(s)
<1>0. s \in RTS /\ s.txns \in Queue /\ s.closed \in Nat /\ s.resolved \in Nat
  BY DEF RTS
<1>1. PICK n \in Int :
        /\ Highest(s.txns, s.closed, n)
        /\ n >= s.resolved => c = [rts |-> [s EXCEPT !.resolved = n], adv |-> n > s.resolved]
  BY <1>0, RecomputeValue
<1>2. s.resolved <= n /\ (Holder(s.txns, s.closed, s.resolved) => s.resolved = n)
  BY <1>0, <1>1, HighestIsHighest, SMT, Z3
<1>3. c.rts = [s EXCEPT !.resolved = n] /\ c.adv = (n > s.resolved)
  BY <1>0, <1>1, <1>2, SMT, Z3
<1>4. n \in Nat
  BY <1>0, <1>2, SMT, Z3
<1>5. Settled(c.rts) /\ c.rts.resolved = n
  <2>1. c.rts \in RTS
    BY <1>0, <1>3, <1>4 DEF RTS
  <2>2. /\ c.rts.resolved = n /\ c.rts.txns = s.txns /\ c.rts.closed = s.closed
        /\ c.rts.init /\ ~c.rts.allowNegRefCount /\ ~c.rts.panic
    BY <1>0, <1>3 DEF RTS
  <2> QED
    BY <1>1, <2>1, <2>2 DEF Settled
<1>6. CASE r.adv
  <2>1. Recomputed(r) = c
    BY <1>6 DEF Recomputed
  <2> QED
    BY <1>0, <1>2, <1>3, <1>5, <2>1 DEF Advances
<1>7. CASE ~r.adv
  <2>1. s.resolved = n /\ ~c.adv
    BY <1>0, <1>2, <1>3, <1>7, SMT, Z3
  <2>2. Recomputed(r) = [rts |-> [c.rts EXCEPT !.panic = @ \/ c.adv], adv |-> FALSE]
    BY <1>7 DEF Recomputed
  <2>3. [c.rts EXCEPT !.panic = @ \/ c.adv] = c.rts
    <3>1. c.rts \in RTS /\ c.rts.panic = FALSE
      BY <1>5 DEF Settled, RTS
    <3>2. (c.rts.panic \/ c.adv) = FALSE
      BY <2>1, <3>1
    <3> HIDE DEF c
    <3> QED
      BY <3>1, <3>2 DEF RTS
  <2> QED
    BY <1>0, <1>5, <2>1, <2>2, <2>3, SMT, Z3 DEF Advances
<1> QED
  BY <1>6, <1>7

\* A new queue whose flag is right.
LEMMA QueueChange ==
  ASSUME NEW rts, Settled(rts), NEW f \in Queue, NEW b \in BOOLEAN,
         Below(f, rts.closed, rts.resolved),
         b \/ Holder(f, rts.closed, rts.resolved)
  PROVE  Advances(rts.resolved, Recomputed([rts |-> [rts EXCEPT !.txns = f], adv |-> b]))
<1> DEFINE s == [rts EXCEPT !.txns = f]
           r == [rts |-> s, adv |-> b]
<1>1. /\ s \in RTS /\ s.init /\ ~s.allowNegRefCount /\ ~s.panic
      /\ s.txns = f /\ s.closed = rts.closed /\ s.resolved = rts.resolved
  BY DEF Settled, RTS
<1>2. r \in [rts : RTS, adv : BOOLEAN] /\ r.rts = s /\ r.adv = b
  BY <1>1
<1> HIDE DEF r, s
<1>3. Advances(r.rts.resolved, Recomputed(r))
  BY <1>1, <1>2, RecomputedSettles
<1> QED
  BY <1>1, <1>2, <1>3 DEF r, s

\* A queue in which a transaction was put, or put off.
LEMMA WithQueue ==
  ASSUME NEW q \in Queue, NEW t \in Txn, NEW e \in TxnEntry
  PROVE  /\ With(q, t, e) \in Queue
         /\ DOMAIN With(q, t, e) = DOMAIN q \cup {t}
         /\ With(q, t, e)[t] = e
         /\ \A u \in DOMAIN q \ {t} : With(q, t, e)[u] = q[u]
<1>1. DOMAIN q \cup {t} \in SUBSET Txn /\ \A u \in DOMAIN q : q[u] \in TxnEntry
  BY QueueType
<1>2. With(q, t, e) \in [DOMAIN q \cup {t} -> TxnEntry]
  BY <1>1 DEF With
<1> QED
  BY <1>1, <1>2 DEF With, Queue

\* A queue from which a transaction was taken.
LEMMA WithoutQueue ==
  ASSUME NEW q \in Queue, NEW t
  PROVE  /\ Without(q, t) \in Queue
         /\ DOMAIN Without(q, t) = DOMAIN q \ {t}
         /\ \A u \in DOMAIN q \ {t} : Without(q, t)[u] = q[u]
<1>1. DOMAIN q \ {t} \in SUBSET Txn /\ \A u \in DOMAIN q : q[u] \in TxnEntry
  BY QueueType
<1>2. Without(q, t) \in [DOMAIN q \ {t} -> TxnEntry]
  BY <1>1 DEF Without
<1> QED
  BY <1>1, <1>2 DEF Without, Queue

\* When a transaction goes that was not the oldest, somebody else holds the
\* resolved timestamp back.
LEMMA KeepsHolder ==
  ASSUME NEW q \in Queue, NEW c \in Nat, NEW n \in Nat, Highest(q, c, n),
         NEW t \in DOMAIN q, ~IsOldest(q, t)
  PROVE  n = c \/ \E u \in DOMAIN q \ {t} : n = FloorPrev(q[u].ts)
<1> SUFFICES ASSUME n # c
             PROVE  \E u \in DOMAIN q \ {t} : n = FloorPrev(q[u].ts)
  OBVIOUS
<1>0. \A u \in DOMAIN q : q[u].ts \in Nat /\ u \in Nat
  BY QueueType
<1>1. PICK h \in DOMAIN q : n = FloorPrev(q[h].ts)
  BY DEF Highest, Holder
<1>2. CASE h # t
  BY <1>1, <1>2
<1>3. CASE h = t
  <2>1. PICK u \in DOMAIN q \ {t} : ~HeapLess(q, t, u)
    BY DEF IsOldest
  <2>2. q[u].ts <= q[t].ts /\ n < q[u].ts
    BY <1>0, <2>1, SMT, Z3 DEF HeapLess, Highest, Below
  <2> QED
    BY <1>0, <1>1, <1>3, <2>1, <2>2, SMT, Z3 DEF FloorPrev
<1> QED
  BY <1>2, <1>3

\* IncRef, DecrRef and UpdateTS.  A transaction that is new is above what is
\* resolved, and one that is known never moves to an earlier timestamp.
LEMMA UpdateTxnAdvances ==
  ASSUME NEW rts, Settled(rts), NEW t \in Txn, NEW ts \in Nat, NEW delta \in {0 - 1, 0, 1},
         delta = 1 => ts > rts.resolved
  PROVE  Advances(rts.resolved, Recomputed(updateTxn(rts, t, ts, delta)))
<1> DEFINE q == rts.txns
           ref == q[t].ref + delta
           c == rts.closed
           n == rts.resolved
           res(f, b) == [rts |-> [rts EXCEPT !.txns = f], adv |-> b]
<1>0. /\ q \in Queue /\ c \in Nat /\ n \in Nat /\ ~rts.allowNegRefCount
      /\ Highest(q, c, n) /\ Below(q, c, n) /\ Holder(q, c, n)
  BY DEF Settled, RTS, Highest
<1>1. CASE t \notin DOMAIN q /\ delta # 1
  <2>1. updateTxn(rts, t, ts, delta) = res(q, FALSE)
    BY <1>0, <1>1, SMT, Z3 DEF updateTxn
  <2> QED
    BY <1>0, <2>1, QueueChange
<1>2. CASE t \notin DOMAIN q /\ delta = 1
  <2>1. PICK e \in TxnEntry : e = [ts |-> ts, ref |-> delta] /\ e.ts = ts
    <3> DEFINE x == [ts |-> ts, ref |-> delta]
    <3>1. x \in TxnEntry /\ x.ts = ts
      BY <1>0, <1>2, SMT, Z3 DEF TxnEntry
    <3> QED
      BY <3>1, Zenon
  <2> DEFINE f == With(q, t, e)
  <2>2. updateTxn(rts, t, ts, delta) = res(f, FALSE)
    BY <1>0, <1>2, <2>1, SMT, Z3 DEF updateTxn
  <2>3. /\ f \in Queue /\ DOMAIN f = DOMAIN q \cup {t} /\ f[t] = e
        /\ \A u \in DOMAIN q \ {t} : f[u] = q[u]
    <3>1. q \in Queue
      BY <1>0
    <3> HIDE DEF q
    <3> QED
      BY <3>1, WithQueue
  <2> HIDE DEF f
  <2>4. Below(f, c, n) /\ Holder(f, c, n)
    BY <1>0, <1>2, <2>1, <2>3 DEF Below, Holder
  <2> QED
    BY <2>2, <2>3, <2>4, QueueChange
<1>3. CASE t \in DOMAIN q /\ (ref = 0 \/ ref < 0)
  <2> DEFINE f == Without(q, t)
  <2>1. updateTxn(rts, t, ts, delta) = res(f, IsOldest(q, t))
    BY <1>0, <1>3 DEF updateTxn
  <2>2. f \in Queue /\ DOMAIN f = DOMAIN q \ {t} /\ \A u \in DOMAIN q \ {t} : f[u] = q[u]
    BY <1>0, WithoutQueue
  <2> HIDE DEF f
  <2>3. Below(f, c, n)
    BY <1>0, <2>2 DEF Below
  <2>4. IsOldest(q, t) \/ Holder(f, c, n)
    BY <1>0, <1>3, <2>2, KeepsHolder, SMT, Z3 DEF Holder
  <2>5. IsOldest(q, t) \in BOOLEAN
    BY DEF IsOldest
  <2> QED
    BY <2>1, <2>2, <2>3, <2>4, <2>5, QueueChange
<1>4. CASE t \in DOMAIN q /\ ~(ref = 0 \/ ref < 0)
  <2>1. q[t] \in TxnEntry /\ \A u \in DOMAIN q : q[u].ts \in Nat
    BY <1>0, <1>4, QueueType
  <2>2. PICK e \in TxnEntry : /\ e = [ts |-> Later(q[t].ts, ts), ref |-> ref]
                           /\ e.ts >= q[t].ts /\ (ts <= q[t].ts => e.ts = q[t].ts)
    <3> DEFINE x == [ts |-> Later(q[t].ts, ts), ref |-> ref]
    <3>1. x \in TxnEntry /\ x.ts >= q[t].ts /\ (ts <= q[t].ts => x.ts = q[t].ts)
      BY <2>1, SMT, Z3 DEF TxnEntry, Later
    <3> QED
      BY <3>1, Zenon
  <2> DEFINE f == With(q, t, e)
             b == ts > q[t].ts /\ IsOldest(q, t)
  <2>3. updateTxn(rts, t, ts, delta) = res(f, b)
    BY <1>0, <1>4, <2>2 DEF updateTxn
  <2>4. /\ f \in Queue /\ DOMAIN f = DOMAIN q /\ f[t] = e
        /\ \A u \in DOMAIN q \ {t} : f[u] = q[u]
    <3>1. /\ f \in Queue /\ DOMAIN f = DOMAIN q \cup {t} /\ f[t] = e
          /\ \A u \in DOMAIN q \ {t} : f[u] = q[u]
      <4>1. q \in Queue
        BY <1>0
      <4> HIDE DEF q
      <4> QED
        BY <4>1, WithQueue
    <3>2. DOMAIN q \cup {t} = DOMAIN q
      BY <1>4
    <3> QED
      BY <3>1, <3>2
  <2> HIDE DEF f
  <2>5. Below(f, c, n)
    <3>1. \A u \in DOMAIN q : f[u].ts >= q[u].ts /\ f[u].ts \in Nat
      BY <2>1, <2>2, <2>4, SMTT(30), Z3 DEF TxnEntry
    <3> QED
      BY <1>0, <2>1, <2>4, <3>1, SMT, Z3 DEF Below
  <2>6. b \/ Holder(f, c, n)
    <3>1. CASE ts <= q[t].ts
      <4>1. \A u \in DOMAIN q : f[u].ts = q[u].ts
        BY <2>2, <2>4, <3>1
      <4> QED
        BY <1>0, <2>4, <4>1 DEF Holder
    <3>2. CASE ~IsOldest(q, t)
      BY <1>0, <1>4, <2>4, <3>2, KeepsHolder, SMT, Z3 DEF Holder
    <3> QED
      BY <2>1, <1>4, <3>1, <3>2, SMT, Z3
  <2>7. b \in BOOLEAN
    BY DEF IsOldest
  <2> HIDE DEF b
  <2> QED
    BY <2>3, <2>4, <2>5, <2>6, <2>7, QueueChange
<1> QED
  BY <1>1, <1>2, <1>3, <1>4

\* Del.
LEMMA DelAdvances ==
  ASSUME NEW rts, Settled(rts), NEW t \in Txn
  PROVE  Advances(rts.resolved, Recomputed(Del(rts, t)))
<1> DEFINE q == rts.txns
           c == rts.closed
           n == rts.resolved
           f == Without(q, t)
<1>0. /\ rts \in RTS /\ q \in Queue /\ c \in Nat /\ n \in Nat
      /\ Highest(q, c, n) /\ Below(q, c, n) /\ Holder(q, c, n)
  BY DEF Settled, RTS, Highest
<1>1. CASE t \notin DOMAIN q
  <2>1. Del(rts, t) = [rts |-> [rts EXCEPT !.txns = q], adv |-> FALSE]
    <3>1. rts = [rts EXCEPT !.txns = q]
      BY <1>0 DEF RTS
    <3> QED
      BY <1>1, <3>1 DEF Del, Tracked
  <2> QED
    BY <1>0, <2>1, QueueChange
<1>2. CASE t \in DOMAIN q
  <2>1. Del(rts, t) = [rts |-> [rts EXCEPT !.txns = f], adv |-> IsOldest(q, t)]
    BY <1>2 DEF Del, Tracked
  <2>2. f \in Queue /\ DOMAIN f = DOMAIN q \ {t} /\ \A u \in DOMAIN q \ {t} : f[u] = q[u]
    BY <1>0, WithoutQueue
  <2> HIDE DEF f
  <2>3. Below(f, c, n)
    BY <1>0, <2>2 DEF Below
  <2>4. IsOldest(q, t) \/ Holder(f, c, n)
    BY <1>0, <1>2, <2>2, KeepsHolder, SMT, Z3 DEF Holder
  <2>5. IsOldest(q, t) \in BOOLEAN
    BY DEF IsOldest
  <2> QED
    BY <2>1, <2>2, <2>3, <2>4, <2>5, QueueChange
<1> QED
  BY <1>1, <1>2

\* An operation above the resolved timestamp passes assertOpAboveRTS.
LEMMA AboveRTS ==
  ASSUME NEW rts, Settled(rts), NEW ts \in Nat, ts > rts.resolved
  PROVE  AssertOpAboveRTS(rts, ts) = rts
<1>1. rts \in RTS /\ rts.resolved \in Nat /\ rts.panic = FALSE
  BY DEF Settled, RTS
<1>2. (rts.panic \/ ts <= rts.resolved) = FALSE
  BY <1>1, SMT, Z3
<1> QED
  BY <1>1, <1>2 DEF AssertOpAboveRTS, RTS

\* ConsumeLogicalOp, for every operation the range sends once the scan is done:
\* if values and intents are written above the resolved timestamp, which the
\* closed timestamp ensures, then no assertion of resolved_timestamp.go fails
\* (the resolved timestamp does not regress, and assertNoChange finds no
\* change when the queue reported none), it is again the highest timestamp
\* below every unresolved intent, and the result says whether it moved, so
\* that no checkpoint is left out.
THEOREM OperationsSettle ==
  ASSUME NEW rts, Settled(rts), NEW op \in Op,
         op.op \in {"writeValue", "writeIntent"} => op.ts > rts.resolved
  PROVE  Advances(rts.resolved, ConsumeLogicalOp(rts, op))
<1>0. op.txn \in Txn /\ op.ts \in Nat /\ rts.init /\ rts \in RTS /\ rts.resolved \in Nat
  BY DEF Op, Settled, RTS
<1>1. CASE op.op = "writeValue"
  <2>1. AssertOpAboveRTS(rts, op.ts) = rts
    BY <1>0, <1>1, AboveRTS
  <2>2. ConsumeLogicalOp(rts, op) = Recomputed([rts |-> rts, adv |-> FALSE])
    BY <1>1, <2>1 DEF ConsumeLogicalOp
  <2>3. rts = [rts EXCEPT !.txns = rts.txns]
    BY <1>0 DEF RTS
  <2>4. Advances(rts.resolved, Recomputed([rts |-> [rts EXCEPT !.txns = rts.txns], adv |-> FALSE]))
    BY QueueChange DEF Settled, Highest, RTS
  <2> QED
    BY <2>2, <2>3, <2>4
<1>2. CASE op.op = "writeIntent"
  <2>1. AssertOpAboveRTS(rts, op.ts) = rts
    BY <1>0, <1>2, AboveRTS
  <2>2. ConsumeLogicalOp(rts, op) = Recomputed(updateTxn(rts, op.txn, op.ts, 1))
    BY <1>2, <2>1 DEF ConsumeLogicalOp, IncRef
  <2> QED
    BY <1>0, <1>2, <2>2, UpdateTxnAdvances
<1>3. CASE op.op = "updateIntent"
  <2>1. ConsumeLogicalOp(rts, op) = Recomputed(updateTxn(rts, op.txn, op.ts, 0))
    BY <1>3 DEF ConsumeLogicalOp, UpdateTS
  <2> QED
    BY <1>0, <2>1, UpdateTxnAdvances, SMT, Z3
<1>4. CASE op.op = "commitIntent"
  <2>1. ConsumeLogicalOp(rts, op) = Recomputed(updateTxn(rts, op.txn, op.ts, 0 - 1))
    BY <1>4 DEF ConsumeLogicalOp, DecrRef
  <2> QED
    BY <1>0, <2>1, UpdateTxnAdvances, SMT, Z3
<1>5. CASE op.op = "abortIntent"
  <2>1. ConsumeLogicalOp(rts, op) = Recomputed(updateTxn(rts, op.txn, 0, 0 - 1))
    BY <1>5 DEF ConsumeLogicalOp, DecrRef
  <2> QED
    BY <1>0, <2>1, UpdateTxnAdvances, SMT, Z3
<1>6. CASE op.op = "abortTxn"
  <2>1. ConsumeLogicalOp(rts, op) = Recomputed(Del(rts, op.txn))
    BY <1>0, <1>6 DEF ConsumeLogicalOp
  <2> QED
    BY <1>0, <2>1, DelAdvances
<1> QED
  BY <1>1, <1>2, <1>3, <1>4, <1>5, <1>6 DEF Op

\* ForwardClosedTS, with any timestamp, also one that is late: closed
\* timestamps never make the resolved one regress or pass an open intent.
THEOREM ClosedTimestampsSettle ==
  ASSUME NEW rts, Settled(rts), NEW ts \in Nat
  PROVE  Advances(rts.resolved, ForwardClosedTS(rts, ts))
<1> DEFINE s == [rts EXCEPT !.closed = Later(@, ts)]
           r == [rts |-> s, adv |-> ts > rts.closed]
<1>0. /\ rts \in RTS /\ rts.closed \in Nat /\ rts.resolved \in Nat /\ rts.init
      /\ ~rts.allowNegRefCount /\ ~rts.panic
      /\ Below(rts.txns, rts.closed, rts.resolved) /\ Holder(rts.txns, rts.closed, rts.resolved)
  BY DEF Settled, RTS, Highest
<1>1. Later(rts.closed, ts) \in Nat /\ Later(rts.closed, ts) >= rts.closed
      /\ (~(ts > rts.closed) => Later(rts.closed, ts) = rts.closed)
  BY <1>0, SMT, Z3 DEF Later
<1>2. /\ s \in RTS /\ s.init /\ ~s.allowNegRefCount /\ ~s.panic
      /\ s.txns = rts.txns /\ s.closed = Later(rts.closed, ts) /\ s.resolved = rts.resolved
  BY <1>0, <1>1 DEF RTS
<1>3. r \in [rts : RTS, adv : BOOLEAN] /\ r.rts = s /\ r.adv = (ts > rts.closed)
  BY <1>0, <1>2, SMT, Z3
<1>4. ForwardClosedTS(rts, ts) = Recomputed(r)
  BY DEF ForwardClosedTS
<1> HIDE DEF r, s
<1>5. Below(s.txns, s.closed, s.resolved)
  BY <1>0, <1>1, <1>2, SMT, Z3 DEF Below
<1>6. r.adv \/ Holder(s.txns, s.closed, s.resolved)
  BY <1>0, <1>1, <1>2, <1>3
<1> QED
  BY <1>2, <1>3, <1>4, <1>5, <1>6, RecomputedSettles

\* Init, at the end of the initialization scan: if by then the scan and the
\* operations that raced it have brought every reference count above zero, the
\* resolved timestamp starts out right and no assertion fails.
THEOREM InitializeSettles ==
  ASSUME NEW rts \in RTS, rts.resolved = 0, ~rts.panic,
         \A t \in Tracked(rts) : rts.txns[t].ref > 0
  PROVE  Advances(0, Initialize(rts))
<1> DEFINE a == [rts EXCEPT !.init = TRUE]
           s == DisallowNegRefCount(a)
<1>1. /\ a \in RTS /\ a.init = TRUE /\ a.panic = FALSE /\ a.txns = rts.txns
      /\ a.resolved = 0 /\ a.txns \in Queue
  BY DEF RTS
<1>2. ~(\E t \in Tracked(a) : a.txns[t].ref <= 0)
  <2>1. \A t \in Tracked(rts) : rts.txns[t].ref \in Int
    BY <1>1, QueueType DEF Tracked, TxnEntry
  <2> QED
    BY <1>1, <2>1, SMT, Z3 DEF Tracked
<1>3. (a.panic \/ \E t \in Tracked(a) : a.txns[t].ref <= 0) = FALSE
  BY <1>1, <1>2
<1> HIDE DEF a
<1>4. s = [a EXCEPT !.allowNegRefCount = FALSE, !.panic = FALSE]
  BY <1>3 DEF DisallowNegRefCount
<1>5. /\ s \in RTS /\ s.init /\ s.allowNegRefCount = FALSE /\ s.panic = FALSE
      /\ s.resolved = 0
  BY <1>1, <1>4 DEF RTS
<1>6. Initialize(rts) = recompute(s)
  BY DEF Initialize, a
<1> HIDE DEF s
<1>7. s.txns \in Queue /\ s.closed \in Nat
  BY <1>5 DEF RTS
<1>8. PICK n \in Int :
        /\ Highest(s.txns, s.closed, n)
        /\ n >= s.resolved => recompute(s) = [rts |-> [s EXCEPT !.resolved = n], adv |-> n > s.resolved]
  BY <1>5, RecomputeValue
<1>9. Below(s.txns, s.closed, 0)
  BY <1>7, QueueType, SMT, Z3 DEF Below
<1>10. 0 <= n
  BY <1>7, <1>8, <1>9, HighestIsHighest, SMT, Z3
<1>11. recompute(s).rts = [s EXCEPT !.resolved = n] /\ recompute(s).adv = (n > 0)
  BY <1>5, <1>8, <1>10, SMT, Z3
<1>12. /\ recompute(s).rts \in RTS /\ recompute(s).rts.init /\ ~recompute(s).rts.allowNegRefCount
       /\ ~recompute(s).rts.panic /\ recompute(s).rts.resolved = n
       /\ recompute(s).rts.txns = s.txns /\ recompute(s).rts.closed = s.closed
  BY <1>5, <1>10, <1>11, SMT, Z3 DEF RTS
<1> QED
  BY <1>6, <1>8, <1>10, <1>11, <1>12 DEF Advances, Settled

-----------------------------------------------------------------------------
(***************************************************************************)
(* Proofs about module HLC, for any number of threads and stores, any      *)
(* offset and any bounds.  Clock monotonicity needs no assumption; what    *)
(* the persisted bound guarantees rests on Prompt.                         *)
(*                                                                         *)
(* BoundCovers and RestartMonotone are not inductive: a write of the bound *)
(* goes through the stores one by one, so ClockInv says what each store holds   *)
(* before and after its turn, and what is left on disk for a node that is  *)
(* down.                                                                   *)
(***************************************************************************)

\* Before its turn a store has the bound in force, after it the new one.
StoresInStep ==
  /\ node # "up" => persist.st = "none"
  /\ persist.st = "none" => bound = 0
  /\ persist.st = "idle" /\ bound # 0 => \A s \in Store : disk[s] = bound
  /\ Writing /\ bound # 0 => \A s \in persist.todo : disk[s] = bound
  /\ Writing => \A s \in Store \ persist.todo : disk[s] = persist.target

\* The clock is below the bound in force and below the one being written.
ClockBelow ==
  /\ bound # 0 => clock.wall <= bound
  /\ Writing /\ persist.target # 0 => clock.wall <= persist.target

\* What a node that is not up will find.
DiskRemembers == node # "up" /\ covered => \E s \in Store : high.wall <= disk[s]

ClockInv == ClockTypeOK /\ StoresInStep /\ ClockBelow /\ DiskRemembers /\ RestartMonotone

\* The values a clock takes are timestamps, not below the one before.
LEMMA NowValueType ==
  ASSUME ClockTypeOK, NEW t \in Thread, read[t] # None, clock.logical < MaxLogical
  PROVE  /\ NowValue(read[t]) \in Timestamp
         /\ NowValue(read[t]).wall >= 1
         /\ NowValue(read[t]).wall >= clock.wall
         /\ Less(clock, NowValue(read[t]))
<1>1. read[t] \in 1 .. MaxTime
  BY DEF ClockTypeOK
<1>2. /\ clock.wall \in 0 .. (MaxTime + MaxOffset) /\ clock.logical \in 0 .. MaxLogical
      /\ clock = [wall |-> clock.wall, logical |-> clock.logical]
  BY DEF ClockTypeOK, Timestamp
<1>3. CASE clock.wall >= read[t]
  <2>1. NowValue(read[t]) = [wall |-> clock.wall, logical |-> clock.logical + 1]
    BY <1>2, <1>3 DEF NowValue
  <2>2. QED
    BY <1>1, <1>2, <1>3, <2>1, HLCAssumption, SMT, Z3 DEF Timestamp, Less
<1>4. CASE ~(clock.wall >= read[t])
  <2>1. NowValue(read[t]) = [wall |-> read[t], logical |-> 0]
    BY <1>4 DEF NowValue
  <2>2. QED
    BY <1>1, <1>2, <1>4, <2>1, HLCAssumption, SMT, Z3 DEF Timestamp, Less
<1>5. QED
  BY <1>3, <1>4

\* What Update computes is a timestamp.
LEMMA UpdateValueType ==
  ASSUME ClockTypeOK, NEW rt \in Timestamp
  PROVE  /\ UpdateValue(rt) \in Timestamp
         /\ UpdateValue(rt).wall >= clock.wall
         /\ UpdateValue(rt) = clock \/ Less(clock, UpdateValue(rt))
BY SMT, Z3 DEF ClockTypeOK, UpdateValue, Timestamp, Less

\* Timestamps are ordered.
LEMMA LessTransitive ==
  ASSUME NEW a \in Timestamp, NEW b \in Timestamp, NEW c \in Timestamp, Less(a, b), Less(b, c)
  PROVE  Less(a, c)
BY SMT, Z3 DEF Timestamp, Less

\* A request's timestamp, or the physical time when that is later.
LEMMA CheckedValueType ==
  ASSUME ClockTypeOK, NEW t \in Thread, NEW rt \in Timestamp, read[t] # None
  PROVE  (IF read[t] > rt.wall THEN [wall |-> read[t], logical |-> 0] ELSE rt) \in Timestamp
<1>1. read[t] \in 1 .. MaxTime
  BY DEF ClockTypeOK
<1>2. QED
  BY <1>1, HLCAssumption, SMT, Z3 DEF Timestamp

\* With a bound in force some store has it.
LEMMA SomeStoreCovers ==
  ASSUME ClockInv, bound # 0, ~Resetting
  PROVE  \E s \in Store : clock.wall <= disk[s]
<1>1. PICK s \in Store : TRUE
  BY HLCAssumption
<1>2. persist.st # "none"
  BY DEF ClockInv, StoresInStep
<1>3. CASE persist.st = "idle"
  BY <1>1, <1>3 DEF ClockInv, StoresInStep, ClockBelow
<1>4. CASE Writing
  <2>1. persist.target # 0
    BY <1>4 DEF Resetting
  <2>2. CASE s \in persist.todo
    BY <1>4, <2>2 DEF ClockInv, StoresInStep, ClockBelow
  <2>3. CASE s \notin persist.todo
    BY <1>1, <1>4, <2>1, <2>3 DEF ClockInv, StoresInStep, ClockBelow
  <2>4. QED
    BY <2>2, <2>3
<1>5. QED
  BY <1>2, <1>3, <1>4 DEF ClockInv, ClockTypeOK, Writing

\* The end of a process, in whatever state.
LEMMA DieKeepsInv ==
  ASSUME ClockInv, Die
  PROVE  ClockInv'
<1>1. ClockTypeOK'
  <2>1. covered' \in BOOLEAN
    BY DEF ClockInv, ClockTypeOK, Die
  <2>2. Zero \in Timestamp
    BY HLCAssumption, SMT, Z3 DEF Zero, Timestamp
  <2>3. high' \in Timestamp
    BY DEF ClockInv, ClockTypeOK, Die
  <2>4. QED
    BY <2>1, <2>2, <2>3 DEF ClockInv, ClockTypeOK, Die
<1>2. StoresInStep' /\ ClockBelow'
  BY DEF Die, StoresInStep, ClockBelow, Writing
<1>3. DiskRemembers'
  <2>1. CASE node = "up"
    <3>1. SUFFICES ASSUME covered' PROVE \E s \in Store : high'.wall <= disk'[s]
      BY DEF DiskRemembers
    <3>2. bound # 0 /\ ~Resetting /\ high' = clock /\ disk' = disk
      BY <2>1, <3>1 DEF Die
    <3>3. QED
      BY <3>2, SomeStoreCovers
  <2>2. CASE node # "up"
    BY <2>2 DEF ClockInv, DiskRemembers, Die
  <2>3. QED
    BY <2>1, <2>2
<1>4. RestartMonotone'
  BY DEF Die, RestartMonotone
<1>5. QED
  BY <1>1, <1>2, <1>3, <1>4 DEF ClockInv

\* The clock moves on within its bounds and nothing that ClockInv is about changes.
LEMMA SetKeepsInv ==
  ASSUME Prompt, ClockInv, NEW v \in Timestamp, Set(v),
         v.wall >= clock.wall, v = clock \/ Less(clock, v),
         read' \in [Thread -> (1 .. MaxTime) \cup {None}],
         UNCHANGED <<phys, bound, disk, node, persist, high, covered, jumps>>
  PROVE  ClockInv'
<1>1. ClockTypeOK'
  BY DEF ClockInv, ClockTypeOK, Set
<1>2. StoresInStep' /\ DiskRemembers'
  BY DEF ClockInv, StoresInStep, DiskRemembers, Writing
<1>3. ClockBelow'
  BY DEF ClockInv, ClockTypeOK, ClockBelow, Set, WithinBound, NotOvertaken, Writing, Resetting
<1>4. RestartMonotone'
  <2>1. CASE node = "up" /\ covered
    <3>1. Less(high, clock) /\ clock' = v
      BY <2>1 DEF ClockInv, RestartMonotone, Set
    <3>2. Less(high, v)
      BY <3>1, LessTransitive DEF ClockInv, ClockTypeOK
    <3>3. QED
      BY <3>1, <3>2 DEF RestartMonotone
  <2>2. CASE ~(node = "up" /\ covered)
    BY <2>2 DEF RestartMonotone
  <2>3. QED
    BY <2>1, <2>2
<1>5. QED
  BY <1>1, <1>2, <1>3, <1>4 DEF ClockInv

\* Now keeps the invariant: under a bound it stops the process at the bound.
LEMMA NowKeepsInv ==
  ASSUME Prompt, ClockInv, NEW t \in Thread, Now(t)
  PROVE  ClockInv'
<1>1. CASE Fatal(NowValue(read[t]))
  BY <1>1, DieKeepsInv DEF Fatal
<1>2. CASE /\ Set(NowValue(read[t]))
           /\ read' = [read EXCEPT ![t] = None]
           /\ UNCHANGED <<phys, bound, disk, node, persist, high, covered, jumps>>
  <2>1. read' \in [Thread -> (1 .. MaxTime) \cup {None}]
    BY <1>2 DEF ClockInv, ClockTypeOK
  <2>2. /\ NowValue(read[t]) \in Timestamp
        /\ NowValue(read[t]).wall >= clock.wall
        /\ Less(clock, NowValue(read[t]))
    BY NowValueType DEF ClockInv, Now
  <2>3. QED
    BY <1>2, <2>1, <2>2, SetKeepsInv
<1>3. QED
  BY <1>1, <1>2 DEF Now

\* Update keeps the invariant: under a bound it stops the process at the bound.
LEMMA UpdateKeepsInv ==
  ASSUME Prompt, ClockInv, NEW rt \in Timestamp, Update(rt)
  PROVE  ClockInv'
<1>1. CASE Fatal(UpdateValue(rt))
  BY <1>1, DieKeepsInv DEF Fatal
<1>2. CASE /\ Set(UpdateValue(rt))
           /\ UNCHANGED <<phys, read, bound, disk, node, persist, high, covered, jumps>>
  <2>1. read' \in [Thread -> (1 .. MaxTime) \cup {None}]
    BY <1>2 DEF ClockInv, ClockTypeOK
  <2>2. /\ UpdateValue(rt) \in Timestamp
        /\ UpdateValue(rt).wall >= clock.wall
        /\ UpdateValue(rt) = clock \/ Less(clock, UpdateValue(rt))
    BY UpdateValueType DEF ClockInv
  <2>3. QED
    BY <1>2, <2>1, <2>2, SetKeepsInv
<1>3. QED
  BY <1>1, <1>2 DEF Update

\* UpdateAndCheckMaxOffset keeps the invariant.
LEMMA CheckedUpdateKeepsInv ==
  ASSUME Prompt, ClockInv, NEW t \in Thread, NEW rt \in Timestamp, UpdateAndCheckMaxOffset(t, rt)
  PROVE  ClockInv'
<1> DEFINE x == IF read[t] > rt.wall THEN [wall |-> read[t], logical |-> 0] ELSE rt
           v == UpdateValue(x)
<1>1. x \in Timestamp
  BY CheckedValueType DEF ClockInv, UpdateAndCheckMaxOffset
<1> HIDE DEF x
<1>2. v \in Timestamp /\ v.wall >= clock.wall /\ (v = clock \/ Less(clock, v))
  BY <1>1, UpdateValueType DEF ClockInv
<1> HIDE DEF v
<1>3. CASE Fatal(v)
  BY <1>3, DieKeepsInv DEF Fatal
<1>4. CASE /\ UNCHANGED clock
           /\ read' = [read EXCEPT ![t] = None]
           /\ UNCHANGED <<phys, bound, disk, node, persist, high, covered, jumps>>
  <2>1. ClockTypeOK'
    BY <1>4 DEF ClockInv, ClockTypeOK
  <2>2. QED
    BY <1>4, <2>1 DEF ClockInv, StoresInStep, ClockBelow, DiskRemembers, RestartMonotone, Writing
<1>5. CASE /\ Set(v)
           /\ read' = [read EXCEPT ![t] = None]
           /\ UNCHANGED <<phys, bound, disk, node, persist, high, covered, jumps>>
  <2>1. read' \in [Thread -> (1 .. MaxTime) \cup {None}]
    BY <1>5 DEF ClockInv, ClockTypeOK
  <2>2. QED
    BY <1>2, <1>5, <2>1, SetKeepsInv
<1>6. QED
  BY <1>3, <1>4, <1>5 DEF UpdateAndCheckMaxOffset, x, v

\* The beginning of a refresh: the new bound is ahead of the clock.
LEMMA RefreshKeepsInv ==
  ASSUME Prompt, ClockInv, ~Writing, NEW t \in Thread, NEW d \in Nat \ {0}, RefreshHLCUpperBound(t, d)
  PROVE  ClockInv'
<1> DEFINE v == NowValue(read[t])
<1>1. v \in Timestamp /\ v.wall >= clock.wall /\ Less(clock, v)
  BY NowValueType DEF ClockInv, RefreshHLCUpperBound
<1> HIDE DEF v
<1>2. CASE Fatal(v)
  BY <1>2, DieKeepsInv DEF Fatal
<1>3. CASE /\ node = "up" /\ WithinBound(v) /\ clock' = v
           /\ read' = [read EXCEPT ![t] = None]
           /\ persist' = Write(v.wall + d)
           /\ UNCHANGED <<phys, bound, disk, node, high, covered, jumps>>
  <2>1. v.wall \in Nat /\ v.wall + d \in Nat /\ v.wall <= v.wall + d
    BY <1>1, HLCAssumption, SMT, Z3 DEF Timestamp
  <2>2. persist' = [st |-> "writing", target |-> v.wall + d, todo |-> Store]
    BY <1>3 DEF Write
  <2>3. ClockTypeOK'
    BY <1>1, <1>3, <2>1, <2>2, SMT, Z3 DEF ClockInv, ClockTypeOK
  <2>4. StoresInStep'
    <3>1. persist.st \in {"none", "idle"}
      BY DEF ClockInv, ClockTypeOK, Writing
    <3>2. bound # 0 => \A s \in Store : disk[s] = bound
      BY <3>1 DEF ClockInv, StoresInStep
    <3>3. QED
      BY <1>3, <2>2, <3>2, SMT, Z3 DEF StoresInStep, Writing
  <2>5. ClockBelow'
    BY <1>3, <2>1, <2>2, SMT, Z3 DEF ClockBelow, WithinBound, Writing
  <2>6. DiskRemembers'
    BY <1>3 DEF DiskRemembers
  <2>7. RestartMonotone'
    <3>1. covered => Less(high, v)
      BY <1>1, <1>3, LessTransitive DEF ClockInv, ClockTypeOK, RestartMonotone
    <3>2. QED
      BY <1>3, <3>1 DEF RestartMonotone
  <2>8. QED
    BY <2>3, <2>4, <2>5, <2>6, <2>7 DEF ClockInv
<1>4. QED
  BY <1>2, <1>3 DEF RefreshHLCUpperBound, v

\* A store's turn.
LEMMA WriteKeepsInv ==
  ASSUME ClockInv, NEW s \in Store, WriteHLCUpperBound(s)
  PROVE  ClockInv'
<1>1. /\ disk' = [disk EXCEPT ![s] = persist.target]
      /\ persist' = [persist EXCEPT !.todo = persist.todo \ {s}]
      /\ Writing /\ s \in persist.todo
      /\ UNCHANGED <<phys, read, clock, bound, node, high, covered, jumps>>
  BY DEF WriteHLCUpperBound
<1>2. /\ persist'.st = "writing" /\ persist'.target = persist.target
      /\ persist'.todo = persist.todo \ {s} /\ persist.target \in Nat
      /\ persist.todo \subseteq Store
  BY <1>1 DEF ClockInv, ClockTypeOK, Writing
<1>3. ClockTypeOK'
  BY <1>1, <1>2 DEF ClockInv, ClockTypeOK
<1>4. StoresInStep'
  BY <1>1, <1>2 DEF ClockInv, ClockTypeOK, StoresInStep, Writing
<1>5. ClockBelow'
  BY <1>1, <1>2 DEF ClockInv, ClockBelow, Writing
<1>6. DiskRemembers' /\ RestartMonotone'
  BY <1>1 DEF ClockInv, StoresInStep, DiskRemembers, RestartMonotone, Writing
<1>7. QED
  BY <1>3, <1>4, <1>5, <1>6 DEF ClockInv

\* After the last store the new bound is in force.
LEMMA SetInMemoryKeepsInv ==
  ASSUME ClockInv, SetInMemory
  PROVE  ClockInv'
<1>1. /\ bound' = persist.target /\ persist' = [st |-> "idle", target |-> 0, todo |-> {}]
      /\ Writing /\ persist.todo = {}
      /\ UNCHANGED <<phys, read, clock, disk, node, high, covered, jumps>>
  BY DEF SetInMemory, Idle
<1>2. ClockTypeOK'
  BY <1>1 DEF ClockInv, ClockTypeOK
<1>3. StoresInStep'
  BY <1>1 DEF ClockInv, StoresInStep, Writing
<1>4. ClockBelow'
  BY <1>1 DEF ClockInv, ClockBelow, Writing
<1>5. DiskRemembers' /\ RestartMonotone'
  BY <1>1 DEF ClockInv, DiskRemembers, RestartMonotone
<1>6. QED
  BY <1>2, <1>3, <1>4, <1>5 DEF ClockInv

\* A node takes its first timestamp above everything a store remembers.
LEMMA EnsureKeepsInv ==
  ASSUME ClockInv, NEW t \in Thread, EnsureClockMonotonicity(t)
  PROVE  ClockInv'
<1> DEFINE v == NowValue(read[t])
<1>1. v \in Timestamp /\ v.wall >= 1 /\ v.wall >= clock.wall
  BY NowValueType DEF ClockInv, EnsureClockMonotonicity
<1>2. /\ node = "starting" /\ node' = "up" /\ clock' = v
      /\ NoBound \/ \A s \in Store : disk[s] + 1 <= clock.wall
      /\ read' = [read EXCEPT ![t] = None]
      /\ UNCHANGED <<phys, bound, disk, persist, high, covered, jumps>>
  BY DEF EnsureClockMonotonicity
<1> HIDE DEF v
<1>3. ClockTypeOK'
  BY <1>1, <1>2 DEF ClockInv, ClockTypeOK
<1>4. StoresInStep' /\ ClockBelow' /\ DiskRemembers'
  BY <1>2 DEF ClockInv, StoresInStep, ClockBelow, DiskRemembers, Writing
<1>5. RestartMonotone'
  <2>1. SUFFICES ASSUME covered PROVE Less(high, v)
    BY <1>2 DEF RestartMonotone
  <2>2. PICK s \in Store : high.wall <= disk[s]
    BY <1>2, <2>1 DEF ClockInv, DiskRemembers
  <2>3. /\ disk[s] \in Nat /\ high.wall \in Nat /\ clock.wall \in Nat /\ v.wall \in Nat
    BY <1>1, <2>2, HLCAssumption, SMT, Z3 DEF ClockInv, ClockTypeOK, Timestamp
  <2>4. high.wall < v.wall
    BY <1>1, <1>2, <2>2, <2>3, SMT, Z3 DEF NoBound
  <2>5. QED
    BY <2>4 DEF Less
<1>6. QED
  BY <1>3, <1>4, <1>5 DEF ClockInv

\* What is left changes nothing that ClockInv relates, or begins to.
LEMMA RestKeepsInv ==
  ASSUME ClockInv,
         \/ Tick \/ JumpBack \/ Start \/ ResetHLCUpperBound \/ UNCHANGED clockVars
         \/ \E t \in Thread : ReadPhysical(t)
         \/ /\ persist.st = "none" /\ node = "up" /\ persist' = Idle
            /\ UNCHANGED <<phys, read, clock, bound, disk, node, high, covered, jumps>>
  PROVE  ClockInv'
<1> USE DEF ClockInv, StoresInStep, ClockBelow, DiskRemembers, RestartMonotone, Writing
<1>1. CASE Tick
  <2>1. phys' \in 1 .. MaxTime
    BY <1>1, HLCAssumption, SMT, Z3 DEF Tick, ClockTypeOK
  <2>2. QED
    BY <1>1, <2>1 DEF Tick, ClockTypeOK
<1>2. CASE JumpBack
  <2>1. phys' \in 1 .. MaxTime /\ jumps' \in 0 .. MaxJumps
    BY <1>2, HLCAssumption, SMT, Z3 DEF JumpBack, ClockTypeOK
  <2>2. QED
    BY <1>2, <2>1 DEF JumpBack, ClockTypeOK
<1>3. CASE Start
  BY <1>3 DEF Start, ClockTypeOK
<1>4. CASE ResetHLCUpperBound
  <2>1. persist' = [st |-> "writing", target |-> 0, todo |-> Store]
    BY <1>4 DEF ResetHLCUpperBound, Write
  <2>2. QED
    BY <1>4, <2>1, SMT, Z3 DEF ResetHLCUpperBound, ClockTypeOK
<1>5. CASE UNCHANGED clockVars
  BY <1>5 DEF clockVars, ClockTypeOK
<1>6. CASE \E t \in Thread : ReadPhysical(t)
  BY <1>6, SMT, Z3 DEF ReadPhysical, ClockTypeOK
<1>7. CASE /\ persist.st = "none" /\ node = "up" /\ persist' = Idle
           /\ UNCHANGED <<phys, read, clock, bound, disk, node, high, covered, jumps>>
  BY <1>7 DEF Idle, ClockTypeOK
<1>8. QED
  BY <1>1, <1>2, <1>3, <1>4, <1>5, <1>6, <1>7

\* At every step.
LEMMA NextKeepsInv ==
  ASSUME Prompt, ClockInv, [ClockNext]_clockVars
  PROVE  ClockInv'
<1>1. CASE Tick \/ JumpBack \/ Start \/ ResetHLCUpperBound \/ UNCHANGED clockVars
  BY <1>1, RestKeepsInv
<1>2. CASE \E t \in Thread : ReadPhysical(t)
  BY <1>2, RestKeepsInv
<1>3. CASE \E t \in Thread : Now(t)
  BY <1>3, NowKeepsInv
<1>4. CASE \E t \in Thread : EnsureClockMonotonicity(t)
  BY <1>4, EnsureKeepsInv
<1>5. CASE \E t \in Thread : StartPersisting(t)
  <2>1. PICK t \in Thread : StartPersisting(t)
    BY <1>5
  <2>2. CASE RefreshHLCUpperBound(t, StartDelta)
    BY <2>1, <2>2, RefreshKeepsInv, HLCAssumption DEF StartPersisting, Writing
  <2>3. CASE ~RefreshHLCUpperBound(t, StartDelta)
    BY <2>1, <2>3, RestKeepsInv DEF StartPersisting
  <2>4. QED
    BY <2>2, <2>3
<1>6. CASE \E t \in Thread, rt \in Timestamp : UpdateAndCheckMaxOffset(t, rt)
  BY <1>6, CheckedUpdateKeepsInv
<1>7. CASE \E t \in Thread, d \in Delta : PersistHLCUpperBound(t, d)
  <2>1. PICK t \in Thread, d \in Delta : PersistHLCUpperBound(t, d)
    BY <1>7
  <2>2. d \in Nat \ {0} /\ ~Writing /\ RefreshHLCUpperBound(t, d)
    BY <2>1, HLCAssumption DEF PersistHLCUpperBound, Writing
  <2>3. QED
    BY <2>2, RefreshKeepsInv
<1>8. CASE \E rt \in Timestamp : Update(rt)
  BY <1>8, UpdateKeepsInv
<1>9. CASE SetInMemory
  BY <1>9, SetInMemoryKeepsInv
<1>10. CASE \E s \in Store : WriteHLCUpperBound(s)
  BY <1>10, WriteKeepsInv
<1>11. CASE Crash
  BY <1>11, DieKeepsInv DEF Crash
<1>12. QED
  BY <1>1, <1>2, <1>3, <1>4, <1>5, <1>6, <1>7, <1>8, <1>9, <1>10, <1>11 DEF ClockNext

\* The first start of the process satisfies the invariant.
LEMMA ClockInitInv == ClockInit => ClockInv
<1> SUFFICES ASSUME ClockInit PROVE ClockInv
  OBVIOUS
<1>1. ClockTypeOK
  <2>1. Zero \in Timestamp
    BY HLCAssumption, SMT, Z3 DEF Timestamp, Zero
  <2>2. phys \in 1 .. MaxTime /\ jumps \in 0 .. MaxJumps
    BY HLCAssumption, SMT, Z3 DEF ClockInit
  <2>3. QED
    BY <2>1, <2>2 DEF ClockInit, ClockTypeOK
<1>2. StoresInStep /\ ClockBelow /\ DiskRemembers /\ RestartMonotone
  BY DEF ClockInit, StoresInStep, ClockBelow, DiskRemembers, RestartMonotone, Writing
<1>3. QED
  BY <1>1, <1>2 DEF ClockInv

\* If bounds are persisted promptly, the invariant holds in every state.
LEMMA InvHolds ==
  ASSUME Prompt
  PROVE  ClockSpec => []ClockInv
<1>1. ClockInv /\ [ClockNext]_clockVars => ClockInv'
  BY NextKeepsInv
<1>2. QED
  BY <1>1, ClockInitInv, PTL DEF ClockSpec

\* If bounds are persisted promptly, some store holds a bound above the wall
\* time of the clock whenever RefreshHLCUpperBound has put one in force.
THEOREM PersistedBoundCovers ==
  ASSUME Prompt
  PROVE  ClockSpec => []BoundCovers
<1>1. ClockInv => BoundCovers
  BY SomeStoreCovers DEF ClockInv, BoundCovers, ClockBelow
<1>2. QED
  BY <1>1, InvHolds, PTL

\* If bounds are persisted promptly, a node that had a bound in force restarts
\* above every timestamp it had: what ensureClockMonotonicity is there for.
THEOREM PersistedBoundSafe ==
  ASSUME Prompt
  PROVE  ClockSpec => []RestartMonotone
<1>1. ClockInv => RestartMonotone
  BY DEF ClockInv
<1>2. QED
  BY <1>1, InvHolds, PTL

\* ClockTypeOK is inductive on its own, and every step of a live process keeps the
\* clock or moves it forward.
LEMMA NextKeepsType ==
  ASSUME ClockTypeOK, [ClockNext]_clockVars
  PROVE  /\ ClockTypeOK'
         /\ node' # "down" => clock' = clock \/ Less(clock, clock')
<1>1. CASE Die
  <2>1. covered' \in BOOLEAN /\ high' \in Timestamp
    BY <1>1 DEF ClockTypeOK, Die
  <2>2. Zero \in Timestamp
    BY HLCAssumption, SMT, Z3 DEF Zero, Timestamp
  <2>3. QED
    BY <1>1, <2>1, <2>2 DEF ClockTypeOK, Die
<1>2. CASE \E t \in Thread : Now(t) /\ ~Die
  <2>1. PICK t \in Thread : Now(t) /\ ~Die
    BY <1>2
  <2>2. clock' \in Timestamp /\ Less(clock, clock')
    BY <2>1, NowValueType DEF Now, Set, Fatal
  <2>3. QED
    BY <2>1, <2>2 DEF ClockTypeOK, Now, Fatal
<1>3. CASE \E t \in Thread : EnsureClockMonotonicity(t)
  <2>1. PICK t \in Thread : EnsureClockMonotonicity(t)
    BY <1>3
  <2>2. clock' \in Timestamp /\ Less(clock, clock')
    BY <2>1, NowValueType DEF EnsureClockMonotonicity
  <2>3. QED
    BY <2>1, <2>2 DEF ClockTypeOK, EnsureClockMonotonicity
<1>4. CASE \E t \in Thread, d \in Nat : RefreshHLCUpperBound(t, d) /\ ~Die
  <2>1. PICK t \in Thread, d \in Nat : RefreshHLCUpperBound(t, d) /\ ~Die
    BY <1>4
  <2>2. clock' \in Timestamp /\ Less(clock, clock') /\ clock'.wall \in Nat
    BY <2>1, NowValueType, HLCAssumption, SMT, Z3 DEF RefreshHLCUpperBound, Fatal, Timestamp
  <2>3. persist' = [st |-> "writing", target |-> clock'.wall + d, todo |-> Store]
    BY <2>1 DEF RefreshHLCUpperBound, Fatal, Write
  <2>4. persist' \in [st : {"none", "idle", "writing"}, target : Nat, todo : SUBSET Store]
    BY <2>2, <2>3, SMT, Z3
  <2>5. QED
    BY <2>1, <2>2, <2>4 DEF ClockTypeOK, RefreshHLCUpperBound, Fatal
<1>5. CASE \E rt \in Timestamp : Update(rt) /\ ~Die
  <2>1. PICK rt \in Timestamp : Update(rt) /\ ~Die
    BY <1>5
  <2>2. clock' \in Timestamp /\ (clock' = clock \/ Less(clock, clock'))
    BY <2>1, UpdateValueType DEF Update, Set, Fatal
  <2>3. QED
    BY <2>1, <2>2 DEF ClockTypeOK, Update, Fatal
<1>6. CASE \E t \in Thread, rt \in Timestamp : UpdateAndCheckMaxOffset(t, rt) /\ ~Die
  <2>1. PICK t \in Thread, rt \in Timestamp : UpdateAndCheckMaxOffset(t, rt) /\ ~Die
    BY <1>6
  <2> DEFINE x == IF read[t] > rt.wall THEN [wall |-> read[t], logical |-> 0] ELSE rt
  <2>2. x \in Timestamp
    BY <2>1, CheckedValueType DEF UpdateAndCheckMaxOffset
  <2>3. clock' = clock \/ clock' = UpdateValue(x)
    BY <2>1 DEF UpdateAndCheckMaxOffset, Set, Fatal
  <2> HIDE DEF x
  <2>4. clock' \in Timestamp /\ (clock' = clock \/ Less(clock, clock'))
    BY <2>2, <2>3, UpdateValueType DEF ClockTypeOK
  <2>5. QED
    BY <2>1, <2>4 DEF ClockTypeOK, UpdateAndCheckMaxOffset, Fatal
<1>7. CASE Tick \/ JumpBack
  <2>1. phys' \in 1 .. MaxTime /\ jumps' \in 0 .. MaxJumps
    BY <1>7, HLCAssumption, SMT, Z3 DEF Tick, JumpBack, ClockTypeOK
  <2>2. QED
    BY <1>7, <2>1 DEF Tick, JumpBack, ClockTypeOK
<1>8. CASE Start \/ UNCHANGED clockVars \/ \E t \in Thread : ReadPhysical(t)
  BY <1>8 DEF Start, clockVars, ReadPhysical, ClockTypeOK
<1>9. CASE ResetHLCUpperBound \/ SetInMemory \/ \E s \in Store : WriteHLCUpperBound(s)
  BY <1>9, SMT, Z3 DEF ResetHLCUpperBound, SetInMemory, WriteHLCUpperBound, Write, Idle, ClockTypeOK
<1>10. CASE /\ persist' = Idle
            /\ UNCHANGED <<phys, read, clock, bound, disk, node, high, covered, jumps>>
  BY <1>10 DEF Idle, ClockTypeOK
<1>11. QED
  <2>1. CASE \E t \in Thread : StartPersisting(t)
    BY <2>1, <1>1, <1>4, <1>10, HLCAssumption DEF StartPersisting
  <2>2. CASE \E t \in Thread, d \in Delta : PersistHLCUpperBound(t, d)
    BY <2>2, <1>1, <1>4, HLCAssumption DEF PersistHLCUpperBound
  <2>3. CASE Crash
    BY <2>3, <1>1 DEF Crash
  <2>4. QED
    BY <1>1, <1>2, <1>3, <1>5, <1>6, <1>7, <1>8, <1>9, <2>1, <2>2, <2>3 DEF ClockNext

\* While the process lives its clock never goes back and Now returns something
\* new (NowIncreases), however old the threads' readings of the physical clock
\* are, and however long a bound takes to be written.
THEOREM ClockMonotone == ClockSpec => NowIncreases
<1>1. ClockInit => ClockTypeOK
  BY ClockInitInv DEF ClockInv
<1>2. ClockTypeOK /\ [ClockNext]_clockVars => ClockTypeOK'
  BY NextKeepsType
<1>3. ClockTypeOK /\ [ClockNext]_clockVars =>
        [node # "down" /\ node' # "down" =>
           /\ clock' = clock \/ Less(clock, clock')
           /\ (\E t \in Thread : Now(t)) => Less(clock, clock')]_clockVars
  <2> SUFFICES ASSUME ClockTypeOK, [ClockNext]_clockVars, node' # "down"
               PROVE  /\ clock' = clock \/ Less(clock, clock')
                      /\ (\E t \in Thread : Now(t)) => Less(clock, clock')
    OBVIOUS
  <2>1. clock' = clock \/ Less(clock, clock')
    BY NextKeepsType
  <2>2. ASSUME NEW t \in Thread, Now(t) PROVE Less(clock, clock')
    BY <2>2, NowValueType DEF Now, Set, Fatal, Die
  <2>3. QED
    BY <2>1, <2>2
<1>4. QED
  BY <1>1, <1>2, <1>3, PTL DEF ClockSpec, NowIncreases

=============================================================================
