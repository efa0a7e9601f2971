------------------------- MODULE ResolvedTimestamp -------------------------
(***************************************************************************)
(* The resolved timestamp of a rangefeed and the queue of transactions     *)
(* with unresolved intents behind it: rangefeed/resolved_timestamp.go.     *)
(*                                                                         *)
(* The methods are operators from one value of the structure to the next.  *)
(* Timestamps are natural numbers (wall times), 0 is the empty timestamp.  *)
(* The heap is its order: the least timestamp first, then the least ID.    *)
(* A failed assertion sets the field panic.                                *)
(***************************************************************************)
EXTENDS Integers

CONSTANT Txn     \* transaction IDs, a set of numbers

ASSUME TxnIDs == Txn \subseteq Nat

Later(a, b) == IF a < b THEN b ELSE a
With(f, t, x) == [u \in DOMAIN f \cup {t} |-> IF u = t THEN x ELSE f[u]]
Without(f, t) == [u \in DOMAIN f \ {t} |-> f[u]]

makeResolvedTimestamp ==
  [init |-> FALSE, closed |-> 0, resolved |-> 0, txns |-> [t \in {} |-> 0],
   allowNegRefCount |-> TRUE, panic |-> FALSE]

Tracked(rts) == DOMAIN rts.txns

\* unresolvedTxnHeap.Less.
HeapLess(q, t, u) == q[t].ts < q[u].ts \/ (q[t].ts = q[u].ts /\ t < u)
IsOldest(q, t) == \A u \in DOMAIN q \ {t} : HeapLess(q, t, u)
Before(rts, ts) == {t \in Tracked(rts) : rts.txns[t].ts < ts}

(***************************************************************************)
(* unresolvedIntentQueue.  The result adv: did the oldest transaction      *)
(* change, so that the resolved timestamp may move?                        *)
(***************************************************************************)
\* A mutant: asks whether the transaction is the oldest after it was removed.
updateTxnLate(rts, t, ts, delta) ==
  LET q   == rts.txns
      ref == q[t].ref + delta
      res(f, b) == [rts |-> [rts EXCEPT !.txns = f], adv |-> b]
  IN IF t \notin DOMAIN q
     THEN IF delta = 0 \/ (delta < 0 /\ ~rts.allowNegRefCount) THEN res(q, FALSE)
          ELSE res(With(q, t, [ts |-> ts, ref |-> delta]), FALSE)
     ELSE IF ref = 0 \/ (ref < 0 /\ ~rts.allowNegRefCount) THEN res(Without(q, t), FALSE)
     ELSE res(With(q, t, [ts |-> Later(q[t].ts, ts), ref |-> ref]),
              ts > q[t].ts /\ IsOldest(q, t))

\* A mutant: the reference count of an unknown transaction never starts below zero.
updateTxnNoNeg(rts, t, ts, delta) ==
  LET q   == rts.txns
      ref == q[t].ref + delta
      res(f, b) == [rts |-> [rts EXCEPT !.txns = f], adv |-> b]
  IN IF t \notin DOMAIN q
     THEN IF delta <= 0 THEN res(q, FALSE)
          ELSE res(With(q, t, [ts |-> ts, ref |-> delta]), FALSE)
     ELSE IF ref = 0 THEN res(Without(q, t), IsOldest(q, t))
     ELSE res(With(q, t, [ts |-> Later(q[t].ts, ts), ref |-> ref]),
              ts > q[t].ts /\ IsOldest(q, t))

updateTxn(rts, t, ts, delta) ==
  LET q   == rts.txns
      ref == q[t].ref + delta
      res(f, b) == [rts |-> [rts EXCEPT !.txns = f], adv |-> b]
  IN IF t \notin DOMAIN q
     THEN IF delta = 0 \/ (delta < 0 /\ ~rts.allowNegRefCount) THEN res(q, FALSE)
          ELSE res(With(q, t, [ts |-> ts, ref |-> delta]), FALSE)
     ELSE IF ref = 0 \/ (ref < 0 /\ ~rts.allowNegRefCount) THEN res(Without(q, t), IsOldest(q, t))
     ELSE res(With(q, t, [ts |-> Later(q[t].ts, ts), ref |-> ref]),
              ts > q[t].ts /\ IsOldest(q, t))

IncRef(rts, t, ts) == updateTxn(rts, t, ts, 1)
DecrRef(rts, t, ts) == updateTxn(rts, t, ts, 0 - 1)
UpdateTS(rts, t, ts) == updateTxn(rts, t, ts, 0)

\* A mutant: an aborted transaction stays in the queue.
DelNothing(rts, t) == [rts |-> rts, adv |-> FALSE]

Del(rts, t) ==
  IF t \notin Tracked(rts) THEN [rts |-> rts, adv |-> FALSE]
  ELSE [rts |-> [rts EXCEPT !.txns = Without(@, t)], adv |-> IsOldest(rts.txns, t)]

\* AllowNegRefCount(false), with its assertion.
DisallowNegRefCount(rts) ==
  [rts EXCEPT !.allowNegRefCount = FALSE,
              !.panic = @ \/ \E t \in Tracked(rts) : rts.txns[t].ref <= 0]

(***************************************************************************)
(* resolvedTimestamp.                                                      *)
(***************************************************************************)
\* FloorPrev panics at the zero timestamp, which has no predecessor; -1 is
\* below every resolved timestamp, so that recompute panics.
FloorPrev(ts) == ts - 1

\* The resolved timestamp is below the closed one and below every tracked
\* transaction, and never goes back.
recompute(rts) ==
  LET q   == rts.txns
      old == {FloorPrev(q[t].ts) : t \in {u \in DOMAIN q : IsOldest(q, u)}}
      new == IF \E p \in old : p < rts.closed THEN CHOOSE p \in old : TRUE ELSE rts.closed
  IN IF ~rts.init THEN [rts |-> rts, adv |-> FALSE]
     ELSE IF new < rts.resolved THEN [rts |-> [rts EXCEPT !.panic = TRUE], adv |-> FALSE]
     ELSE [rts |-> [rts EXCEPT !.resolved = new], adv |-> new > rts.resolved]

\* assertNoChange when nothing should have changed, recompute when it may have.
Recomputed(r) ==
  LET c == recompute(r.rts) IN
  IF r.adv THEN c
  ELSE [rts |-> [c.rts EXCEPT !.panic = @ \/ c.adv], adv |-> FALSE]

Initialize(rts) == recompute(DisallowNegRefCount([rts EXCEPT !.init = TRUE]))

ForwardClosedTS(rts, ts) ==
  Recomputed([rts |-> [rts EXCEPT !.closed = Later(@, ts)], adv |-> ts > rts.closed])

\* assertOpAboveRTS.
AssertOpAboveRTS(rts, ts) == [rts EXCEPT !.panic = @ \/ ts <= rts.resolved]

ConsumeLogicalOp(rts, op) ==
  Recomputed(
    CASE op.op = "writeValue"   -> [rts |-> AssertOpAboveRTS(rts, op.ts), adv |-> FALSE]
      [] op.op = "writeIntent"  -> IncRef(AssertOpAboveRTS(rts, op.ts), op.txn, op.ts)
      [] op.op = "updateIntent" -> UpdateTS(rts, op.txn, op.ts)
      [] op.op = "commitIntent" -> DecrRef(rts, op.txn, op.ts)
      [] op.op = "abortIntent"  -> DecrRef(rts, op.txn, 0)
      [] op.op = "abortTxn"     -> IF ~rts.init THEN [rts |-> rts, adv |-> FALSE]
                                   ELSE Del(rts, op.txn))
============================================================================
