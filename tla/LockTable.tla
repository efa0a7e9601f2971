----------------------------- MODULE LockTable -----------------------------
(***************************************************************************)
(* The per-range lock table: src/pkg/kv/kvserver/concurrency/lock_table.go. *)
(* The table is one value, passed from operator to operator the way the    *)
(* code mutates it; the operators keep the names of the methods.  Modules  *)
(* that use it say when each method runs (see ConcurrencyManager).         *)
(*                                                                         *)
(* A lock table value s is a record:                                       *)
(*   req     what each request asks for: its transaction (NoTxn for a      *)
(*           non-transactional one), its timestamp and its lock spans, a   *)
(*           sequence of single keys, writes before reads, the order of    *)
(*           stepToNextSpan                                                *)
(*   max     maxLocks                                                      *)
(*   enabled, nextSeq   the fields of lockTableImpl                        *)
(*   tree    the lockState object that the tree holds for a key (0: none)  *)
(*   obj     every lockState object, in or out of the tree: guards keep    *)
(*           snapshots of the tree, so a request can meet an object that   *)
(*           was removed from it                                           *)
(*   g       the lockTableGuardImpl of each request                        *)
(*   fatal   a panic or a "caller violated contract" error was reached     *)
(*                                                                         *)
(* Sequence numbers and epochs of lock acquisitions (savepoint rollbacks)  *)
(* and the local key scope are left out: one acquisition per durability.   *)
(***************************************************************************)
EXTENDS Naturals, FiniteSets, Sequences, SequencesExt

CONSTANTS
  Key,      \* the lockable keys
  Req,      \* the requests in flight
  Gen,      \* names for the lockState objects of one key
  NoTxn,    \* no transaction
  NoReq     \* no request

LockID == Key \X Gen

\* lockState: the holder with its timestamp per durability (0: not held at
\* that durability), the reservation, the queue of writers, the waiting
\* readers and the distinguished waiter.
EmptyLock ==
  [txn |-> NoTxn, repl |-> 0, unrepl |-> 0, res |-> NoReq,
   writers |-> <<>>, readers |-> <<>>, dist |-> NoReq]

NoState == [kind |-> "none", txn |-> NoTxn, key |-> 0, held |-> FALSE, acc |-> "read"]
DoneWaiting == [NoState EXCEPT !.kind = "doneWaiting"]
WaitSelf == [NoState EXCEPT !.kind = "waitSelf"]

NewGuard ==
  [seq |-> 0, pos |-> 0, startWait |-> FALSE, state |-> NoState, signal |-> FALSE,
   mustFind |-> FALSE, locks |-> {}, gc |-> {}, snap |-> [k \in Key |-> 0]]

TxnOf(s, g) == s.req[g].txn
KeyAt(s, g, p) == s.req[g].spans[p].key
\* The span access of a lock span: a locking read is a SpanReadWrite too.
AccessAt(s, g, p) == IF s.req[g].spans[p].op = "read" THEN "read" ELSE "write"

Held(L) == L.txn # NoTxn
Fatal(s) == [s EXCEPT !.fatal = TRUE]

getLockHolderTS(L) ==
  IF L.repl = 0 \/ (L.unrepl # 0 /\ L.unrepl < L.repl) THEN L.unrepl ELSE L.repl

clearLockHolder(L) == [L EXCEPT !.txn = NoTxn, !.repl = 0, !.unrepl = 0]

isEmptyLock(L) == ~Held(L) /\ L.res = NoReq

(***************************************************************************)
(* Guards.                                                                 *)
(***************************************************************************)
SetLock(s, l, L) == [s EXCEPT !.obj[l] = L]

ForgetLock(s, G, l) ==
  [s EXCEPT !.g = [g \in Req |-> IF g \in G THEN [@[g] EXCEPT !.locks = @ \ {l}] ELSE @[g]]]

\* For a set of guards that hold no reservation at l.
doneWaitingAtLock(s, G, l) ==
  [ForgetLock(s, G, l) EXCEPT
     !.g = [g \in Req |-> IF g \in G THEN [@[g] EXCEPT !.mustFind = TRUE, !.signal = TRUE]
                                     ELSE @[g]]]

\* A mutant: the new reservation holder is not notified.
gotReservationSilently(s, g) == [s EXCEPT !.g[g].mustFind = TRUE]

gotReservation(s, g) == [s EXCEPT !.g[g].mustFind = TRUE, !.g[g].signal = TRUE]

isSameTxn(s, g, t) == t # NoTxn /\ TxnOf(s, g) = t

WriterGuards(L) == {q.g : q \in ToSet(L.writers)}
ActiveWriters(L) == [i \in DOMAIN SelectSeq(L.writers, LAMBDA q : q.active) |->
                       SelectSeq(L.writers, LAMBDA q : q.active)[i].g]
ActiveWaiters(L) == L.readers \o ActiveWriters(L)

\* Queue g by sequence number.
InsertWriter(s, ws, g, active) ==
  LET before == SelectSeq(ws, LAMBDA q : s.g[q.g].seq < s.g[g].seq)
      after  == SelectSeq(ws, LAMBDA q : s.g[q.g].seq >= s.g[g].seq)
  IN before \o <<[g |-> g, active |-> active]>> \o after

\* The reservation goes back to the front of the queue, inactive.
Unreserve(L) ==
  IF L.res = NoReq THEN L
  ELSE [L EXCEPT !.writers = <<[g |-> L.res, active |-> FALSE]>> \o @, !.res = NoReq]

(***************************************************************************)
(* lockState methods.                                                      *)
(***************************************************************************)
informActiveWaiters(s, l) ==
  LET L    == s.obj[l]
      txn  == IF Held(L) THEN L.txn ELSE TxnOf(s, L.res)
      self(g) == ~Held(L) /\ isSameTxn(s, g, txn)
      acts == ActiveWaiters(L)
      cand == SelectSeq(acts, LAMBDA g : ~self(g))
      dist == IF L.dist # NoReq /\ ~self(L.dist) THEN L.dist
              ELSE IF cand = <<>> THEN NoReq ELSE Head(cand)
      st(g) == IF self(g) THEN WaitSelf
               ELSE [kind |-> IF g = dist THEN "waitForDistinguished" ELSE "waitFor",
                     txn |-> txn, key |-> l[1], held |-> Held(L),
                     acc |-> IF Contains(L.readers, g) THEN "read" ELSE "write"]
  IN [s EXCEPT !.obj[l].dist = dist,
               !.g = [g \in Req |-> IF Contains(acts, g)
                                    THEN [@[g] EXCEPT !.state = st(g), !.signal = TRUE]
                                    ELSE @[g]]]

\* A mutant: inactive writers keep the lock in their map.
releaseWritersKeepsLocks(s, l, t) ==
  LET L    == s.obj[l]
      mine == {q \in ToSet(L.writers) : isSameTxn(s, q.g, t)}
      act  == {q.g : q \in {x \in mine : x.active}}
  IN SetLock(doneWaitingAtLock(s, act, l), l,
             [L EXCEPT !.writers = SelectSeq(@, LAMBDA q : q \notin mine),
                       !.dist = IF @ \in act THEN NoReq ELSE @])

releaseWritersFromTxn(s, l, t) ==
  LET L    == s.obj[l]
      mine == {q \in ToSet(L.writers) : isSameTxn(s, q.g, t)}
      act  == {q.g : q \in {x \in mine : x.active}}
      s1   == doneWaitingAtLock(ForgetLock(s, {q.g : q \in mine}, l), act, l)
  IN SetLock(s1, l, [L EXCEPT !.writers = SelectSeq(@, LAMBDA q : q \notin mine),
                              !.dist = IF @ \in act THEN NoReq ELSE @])

tryMakeNewDistinguished(s, l) ==
  LET L    == s.obj[l]
      cand == IF L.readers # <<>> THEN L.readers
              ELSE SelectSeq(ActiveWriters(L),
                             LAMBDA g : L.res = NoReq \/ ~isSameTxn(s, g, TxnOf(s, L.res)))
  IN IF cand = <<>> THEN s
     ELSE [s EXCEPT !.obj[l].dist = Head(cand),
                    !.g[Head(cand)].state.kind = "waitForDistinguished",
                    !.g[Head(cand)].signal = TRUE]

\* The lock was released or its reservation dropped: readers and the leading
\* non-transactional writers go on, the first transactional writer gets the
\* reservation.
lockIsFree(s, l) ==
  LET L     == s.obj[l]
      first == SelectInSeq(L.writers, LAMBDA q : TxnOf(s, q.g) # NoTxn)
      rest  == IF first = 0 THEN <<>> ELSE SubSeq(L.writers, first, Len(L.writers))
      out   == ToSet(L.readers) \cup (WriterGuards(L) \ {q.g : q \in ToSet(rest)})
      d     == IF L.dist \in out THEN NoReq ELSE L.dist
      s1    == doneWaitingAtLock(s, out, l)
      q     == Head(rest)
      s2    == SetLock(s1, l, [L EXCEPT !.readers = <<>>, !.writers = Tail(rest), !.res = q.g,
                                        !.dist = IF q.active /\ d = q.g THEN NoReq ELSE d])
  IN IF ~isEmptyLock(L) THEN Fatal(s)
     ELSE IF rest = <<>> THEN SetLock(s1, l, [EmptyLock EXCEPT !.dist = d])
     ELSE informActiveWaiters(IF q.active THEN gotReservation(s2, q.g) ELSE s2, l)

\* A mutant: no new distinguished waiter after the old one stops waiting.
increasedLockTsNoDistinguished(s, l, ts) ==
  LET L   == s.obj[l]
      out == {g \in ToSet(L.readers) : s.req[g].ts < ts}
  IN SetLock(doneWaitingAtLock(s, out, l), l,
             [L EXCEPT !.readers = SelectSeq(@, LAMBDA g : g \notin out),
                       !.dist = IF @ \in out THEN NoReq ELSE @])

increasedLockTs(s, l, ts) ==
  LET L   == s.obj[l]
      out == {g \in ToSet(L.readers) : s.req[g].ts < ts}
      s1  == SetLock(doneWaitingAtLock(s, out, l), l,
                     [L EXCEPT !.readers = SelectSeq(@, LAMBDA g : g \notin out),
                               !.dist = IF @ \in out THEN NoReq ELSE @])
  IN IF L.dist \in out THEN tryMakeNewDistinguished(s1, l) ELSE s1

\* Does the lock make g wait when it accesses the key with acc?  The early
\* returns of tryActiveWait that leave the lock as it is.
MustWait(s, l, g, acc) ==
  LET L == s.obj[l] IN
  /\ ~isEmptyLock(L)
  /\ ~(Held(L) /\ isSameTxn(s, g, L.txn))
  /\ acc = "read" => /\ Held(L)
                     /\ s.req[g].ts >= getLockHolderTS(L)
                     /\ l \notin s.g[g].locks
  /\ ~Held(L) => /\ L.res # g
                 /\ ~(TxnOf(s, g) = NoTxn /\ s.g[L.res].seq > s.g[g].seq)

\* A mutant: reservations are never broken.
tryBreakReservationNever(s, l, g) == FALSE

tryBreakReservation(s, l, g) == s.obj[l].res # NoReq /\ s.g[s.obj[l].res].seq > s.g[g].seq

\* The second half of tryActiveWait: g joins the queue of the lock.
EnterQueue(s, l, g, acc, notify) ==
  LET L     == s.obj[l]
      txn   == IF Held(L) THEN L.txn ELSE TxnOf(s, L.res)
      self  == ~Held(L) /\ isSameTxn(s, g, txn)
      inQ   == l \in s.g[g].locks
      bad   == acc = "write" /\ inQ /\ g \notin WriterGuards(L)
      L1    == IF acc = "read" THEN [L EXCEPT !.readers = <<g>> \o @]
               ELSE IF inQ
               THEN [L EXCEPT !.writers = [i \in DOMAIN @ |->
                                             IF @[i].g = g THEN [@[i] EXCEPT !.active = TRUE] ELSE @[i]]]
               ELSE [L EXCEPT !.writers = InsertWriter(s, @, g, TRUE)]
      dist  == IF L.dist = NoReq /\ ~self THEN g ELSE L.dist
      kind  == IF L.dist = NoReq THEN "waitForDistinguished" ELSE "waitFor"
      st    == IF self THEN WaitSelf
               ELSE [kind |-> kind, txn |-> txn, key |-> l[1], held |-> Held(L), acc |-> acc]
  IN IF bad THEN Fatal(s)
     ELSE [SetLock(s, l, [L1 EXCEPT !.dist = dist]) EXCEPT
             !.g[g] = [@ EXCEPT !.locks = @ \cup {l}, !.startWait = TRUE, !.state = st,
                                !.signal = @ \/ notify]]

\* Returns the table and whether g now waits at l.
tryActiveWait(s, l, g, acc, notify) ==
  IF ~MustWait(s, l, g, acc) THEN [s |-> s, wait |-> FALSE]
  ELSE IF acc = "write" /\ tryBreakReservation(s, l, g)
  THEN [s |-> informActiveWaiters(
                [SetLock(s, l, [Unreserve(s.obj[l]) EXCEPT !.res = g])
                   EXCEPT !.g[g].locks = @ \cup {l}], l),
        wait |-> FALSE]
  ELSE [s |-> EnterQueue(s, l, g, acc, notify), wait |-> TRUE]

Forward(a, b) == IF a < b THEN b ELSE a

acquireLock(s, l, t, dur, ts) ==
  LET L  == s.obj[l]
      L1 == [L EXCEPT ![dur] = Forward(@, ts)]
      L2 == [(IF L.res # NoReq /\ TxnOf(s, L.res) # t THEN Unreserve(L) ELSE [L EXCEPT !.res = NoReq])
               EXCEPT !.txn = t, ![dur] = ts]
      s1 == IF L.res # NoReq /\ TxnOf(s, L.res) = t THEN ForgetLock(s, {L.res}, l) ELSE s
  IN IF Held(L)
     THEN IF L.txn # t THEN Fatal(s)
          ELSE IF getLockHolderTS(L) < getLockHolderTS(L1)
          THEN increasedLockTs(SetLock(s, l, L1), l, getLockHolderTS(L1))
          ELSE SetLock(s, l, L1)
     ELSE IF L.readers # <<>> \/ (L.res = NoReq /\ L.writers # <<>>) THEN Fatal(s)
     ELSE informActiveWaiters(releaseWritersFromTxn(SetLock(s1, l, L2), l, t), l)

\* A mutant: the waiters are not told of the discovered holder.
discoveredLockUninformed(s, l, t, ts, g, acc) ==
  LET L   == s.obj[l]
      L1  == [Unreserve(L) EXCEPT !.txn = t, !.repl = IF @ = 0 THEN ts ELSE @]
      add == acc = "write" /\ l \notin s.g[g].locks
      L2  == IF add THEN [L1 EXCEPT !.writers = InsertWriter(s, @, g, FALSE)] ELSE L1
      s1  == IF add THEN [s EXCEPT !.g[g].locks = @ \cup {l}] ELSE s
  IN IF (Held(L) /\ L.txn # t) \/ (acc = "read" /\ s.req[g].ts < ts) THEN Fatal(s)
     ELSE releaseWritersFromTxn(SetLock(s1, l, L2), l, t)

discoveredLock(s, l, t, ts, g, acc) ==
  LET L   == s.obj[l]
      L1  == [Unreserve(L) EXCEPT !.txn = t, !.repl = IF @ = 0 THEN ts ELSE @]
      add == acc = "write" /\ l \notin s.g[g].locks
      L2  == IF add THEN [L1 EXCEPT !.writers = InsertWriter(s, @, g, FALSE)] ELSE L1
      s1  == IF add THEN [s EXCEPT !.g[g].locks = @ \cup {l}] ELSE s
  IN IF (Held(L) /\ L.txn # t) \/ (acc = "read" /\ s.req[g].ts < ts) THEN Fatal(s)
     ELSE informActiveWaiters(releaseWritersFromTxn(SetLock(s1, l, L2), l, t), l)

\* up: [txn, key, final, ts].
tryUpdateLock(s, l, up) ==
  LET L   == s.obj[l]
      adv == getLockHolderTS(L) < up.ts
      L1  == [L EXCEPT !.repl = 0, !.unrepl = IF adv /\ @ # 0 THEN up.ts ELSE @]
  IN IF ~Held(L) \/ L.txn # up.txn THEN s
     ELSE IF up.final \/ L.unrepl = 0 THEN lockIsFree(SetLock(s, l, clearLockHolder(L)), l)
     ELSE IF adv THEN increasedLockTs(SetLock(s, l, L1), l, up.ts)
     ELSE SetLock(s, l, L1)

requestDone(s, l, g) ==
  LET L  == s.obj[l]
      s1 == ForgetLock(s, {g}, l)
      s2 == SetLock(s1, l, [L EXCEPT !.writers = SelectSeq(@, LAMBDA q : q.g # g),
                                     !.readers = IF g \in WriterGuards(L) THEN @
                                                 ELSE SelectSeq(@, LAMBDA x : x # g),
                                     !.dist = IF @ = g THEN NoReq ELSE @])
  IN IF l \notin s.g[g].locks THEN s
     ELSE IF L.res = g THEN lockIsFree(SetLock(s1, l, [L EXCEPT !.res = NoReq]), l)
     ELSE IF g \notin WriterGuards(L) /\ ~Contains(L.readers, g) THEN Fatal(s)
     ELSE IF L.dist = g THEN tryMakeNewDistinguished(s2, l) ELSE s2

MayClear(L, force) == force \/ L.repl = 0 \/ L.dist # NoReq

\* A mutant: the request that reserved the lock is not told.
tryClearLockKeepsReservation(s, l, force) ==
  LET L    == s.obj[l]
      acts == ToSet(ActiveWaiters(L))
      s1   == ForgetLock(SetLock(s, l, EmptyLock), ToSet(L.readers) \cup WriterGuards(L), l)
  IN [s1 EXCEPT !.g = [g \in Req |-> IF g \in acts
                                     THEN [@[g] EXCEPT !.state = DoneWaiting, !.signal = TRUE]
                                     ELSE @[g]]]

tryClearLock(s, l, force) ==
  LET L    == s.obj[l]
      keep == Held(L) /\ L.repl # 0 /\ ~force
      st(acc) == IF keep THEN [kind |-> "waitElsewhere", txn |-> L.txn, key |-> l[1],
                               held |-> TRUE, acc |-> acc]
                 ELSE [DoneWaiting EXCEPT !.acc = acc]
      acts == ToSet(ActiveWaiters(L))
      all  == ToSet(L.readers) \cup WriterGuards(L) \cup {L.res}
      s1   == ForgetLock(SetLock(s, l, IF keep THEN [EmptyLock EXCEPT !.txn = L.txn, !.repl = L.repl]
                                       ELSE EmptyLock), all, l)
  IN [s1 EXCEPT !.g = [g \in Req |-> IF g \in acts
                                     THEN [@[g] EXCEPT !.state = st(IF Contains(L.readers, g) THEN "read" ELSE "write"),
                                                       !.signal = TRUE]
                                     ELSE @[g]]]

(***************************************************************************)
(* lockTableImpl methods.                                                  *)
(***************************************************************************)
InTree(s, k) == s.tree[k] # 0
ObjOf(s, k) == <<k, s.tree[k]>>

Referenced(s, l) ==
  \/ s.tree[l[1]] = l[2]
  \/ \E g \in Req : s.g[g].snap[l[1]] = l[2] \/ l \in s.g[g].locks

\* An object nobody can reach any more is garbage collected by the Go runtime.
Collect(s) ==
  [s EXCEPT !.obj = [l \in LockID |-> IF Referenced(s, l) THEN @[l] ELSE EmptyLock]]

NewLockState(s, k) ==
  [s EXCEPT !.tree[k] = CHOOSE n \in Gen : /\ ~Referenced(s, <<k, n>>)
                                           /\ \A m \in Gen : m < n => Referenced(s, <<k, m>>)]

tryGCLock(s, k) ==
  IF InTree(s, k) /\ isEmptyLock(s.obj[ObjOf(s, k)]) THEN [s EXCEPT !.tree[k] = 0] ELSE s

tryClearLocks(s, force) ==
  LET ks == {k \in Key : InTree(s, k) /\ MayClear(s.obj[ObjOf(s, k)], force)}
      clear(acc, k) == [tryClearLock(acc, ObjOf(s, k), force) EXCEPT !.tree[k] = 0]
  IN FoldLeft(clear, s, SetToSeq(ks))

NumLocks(s) == Cardinality({k \in Key : InTree(s, k)})

\* The table and whether tryFreeLockOnReplicatedAcquire dropped the lock.
tryFreeLockOnReplicatedAcquire(s, l) ==
  LET L == s.obj[l] IN
  IF ~Held(L) \/ L.repl # 0 \/ L.writers # <<>> THEN [s |-> s, freed |-> FALSE]
  ELSE [s |-> lockIsFree(SetLock(s, l, clearLockHolder(L)), l), freed |-> TRUE]

AcquireLock(s, t, k, dur, ts) ==
  LET free == IF InTree(s, k) /\ dur = "repl" THEN tryFreeLockOnReplicatedAcquire(s, ObjOf(s, k))
              ELSE [s |-> s, freed |-> FALSE]
      s1   == IF InTree(s, k) THEN s ELSE NewLockState(s, k)
      s2   == acquireLock(s1, ObjOf(s1, k), t, dur, ts)
  IN IF ~s.enabled \/ (~InTree(s, k) /\ dur = "repl") THEN s
     ELSE IF free.freed THEN [free.s EXCEPT !.tree[k] = 0]
     ELSE IF NumLocks(s2) > s.max THEN tryClearLocks(s2, FALSE)
     ELSE s2

AccessOf(s, g, k) ==
  IF \E p \in DOMAIN s.req[g].spans : KeyAt(s, g, p) = k /\ AccessAt(s, g, p) = "write"
  THEN "write" ELSE "read"

AddDiscoveredLock(s, k, t, ts, g) ==
  LET s1 == IF InTree(s, k) THEN s ELSE NewLockState(s, k)
  IN IF ~s.enabled THEN s ELSE discoveredLock(s1, ObjOf(s1, k), t, ts, g, AccessOf(s, g, k))

UpdateLocks(s, up) ==
  LET s1 == tryUpdateLock(s, ObjOf(s, up.key), up)
  IN IF ~InTree(s, up.key) \/ s1 = s THEN s ELSE tryGCLock(s1, up.key)

\* One turn of the loop of Dequeue, under the mutex of lock l alone, and what
\* comes after the loop: the locks that were left empty go from the tree.
DequeueFrom(s, g, l) ==
  LET s1 == requestDone(s, l, g)
  IN [s1 EXCEPT !.g[g].gc = IF isEmptyLock(s1.obj[l]) THEN @ \cup {l[1]} ELSE @]
DequeueEnd(s, g) == [FoldLeft(tryGCLock, s, SetToSeq(s.g[g].gc)) EXCEPT !.g[g] = NewGuard]

Clear(s, disable) == tryClearLocks([s EXCEPT !.enabled = @ /\ ~disable], TRUE)
Enable(s) == [s EXCEPT !.enabled = TRUE]

\* ScanAndEnqueue up to its call of findNextLockAfter: a snapshot of the tree
\* and the position before the first span.
StartScan(s, g) ==
  LET first == s.g[g].seq = 0
  IN [s EXCEPT !.nextSeq = IF first THEN @ + 1 ELSE @,
               !.g[g] = [@ EXCEPT !.seq = IF first THEN s.nextSeq ELSE @, !.pos = 0,
                                  !.startWait = FALSE, !.mustFind = FALSE, !.snap = s.tree]]

\* The next lock of the snapshot that the request meets: findNextLockAfter
\* skips the keys with no lock.
NextPos(s, g) ==
  LET ps == {p \in DOMAIN s.req[g].spans : p > s.g[g].pos /\ s.g[g].snap[KeyAt(s, g, p)] # 0}
  IN IF ps = {} THEN 0 ELSE CHOOSE p \in ps : \A q \in ps : p <= q

\* One iteration of findNextLockAfter: the table, and whether the loop is over.
FindNextLock(s, g, notify) ==
  LET p == NextPos(s, g)
      k == KeyAt(s, g, p)
      r == tryActiveWait([s EXCEPT !.g[g].pos = p], <<k, s.g[g].snap[k]>>, g, AccessAt(s, g, p), notify)
  IN IF p = 0
     THEN [s |-> [s EXCEPT !.g[g].state = DoneWaiting, !.g[g].signal = @ \/ notify], over |-> TRUE]
     ELSE [s |-> r.s, over |-> r.wait]
=============================================================================
