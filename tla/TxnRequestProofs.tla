------------------------- MODULE TxnRequestProofs ---------------------------
(***************************************************************************)
(* What the requests of the commit batch do, when they are evaluated for   *)
(* the coordinator and when a copy arrives late, keeps the invariant IInv  *)
(* of module TxnCommitProofs.                                              *)
(***************************************************************************)
EXTENDS TxnCommitProofs

\* Leaves are first-order unless they cite SMT.
USE ZenonT(60)

-----------------------------------------------------------------------------
(***************************************************************************)
(* Steps within the commit batch.                                          *)
(***************************************************************************)

LEMMA MergeFacts ==
  /\ \A e \in Error : MergeErr(e, "none") = e
  /\ \A e, f \in Error : MergeErr(e, f) \in {e, f}
  /\ \A e, f \in Error : MergeErr(e, f) = "none" => e = "none" /\ f = "none"
  /\ \A e \in Error : MergeErr(e, "aborted") = "aborted"
  /\ \A x, e : co.amb = {} => ErrOf(x, e) = e
BY SMT, Z3 DEF Error, MergeErr, Priority, ErrOf

\* What the coordinator's own requests do to its batch.
LEMMA SendPutEffect ==
  ASSUME IInv, NEW k \in Key, SendPut(k)
  PROVE  LET q == PutRequest(k, co.hrts, co.hwts)
         IN /\ SameBatch /\ co.pc = "commit" /\ <<"put", k>> \in co.pend /\ UNCHANGED net
            /\ co'.pend = co.pend \ {<<"put", k>>} /\ co'.wts = Max2(co.wts, PutReply(q))
            /\ co'.qerr = co.qerr /\ co'.staged = co.staged /\ EvalPut(q)
            /\ co'.err = IF PutRefused(q) THEN MergeErr(co.err, "error") ELSE co.err
<1> DEFINE q == PutRequest(k, co.hrts, co.hwts)
<1>1. co \in Coord /\ ~co.fwd /\ co.amb = {} /\ co.err \in Error
  BY Fields DEF IInv, TypeOK, CoInv
<1>2. PutReplyRTS(q) = co.rts
  BY <1>1 DEF PutReplyRTS
<1>3. PICK e \in Error : e = IF PutRefused(q) THEN "error" ELSE "none"
  BY DEF Error
<1>4. ErrOf(<<"put", k>>, e) = e
  BY <1>1, MergeFacts
<1>5. co' = [co EXCEPT !.pend = @ \ {<<"put", k>>}, !.wts = Max2(@, PutReply(q)),
                       !.rts = co.rts, !.err = MergeErr(@, e)]
  BY <1>2, <1>3, <1>4 DEF SendPut
<1>6. /\ co.pc = "commit" /\ <<"put", k>> \in co.pend /\ UNCHANGED net /\ EvalPut(q)
  BY DEF SendPut
<1>7. MergeErr(co.err, e) = IF PutRefused(q) THEN MergeErr(co.err, "error") ELSE co.err
  BY <1>1, <1>3, MergeFacts
<1> HIDE DEF q
<1>8. /\ SameBatch /\ co'.pend = co.pend \ {<<"put", k>>} /\ co'.wts = Max2(co.wts, PutReply(q))
      /\ co'.qerr = co.qerr /\ co'.staged = co.staged /\ co'.err = MergeErr(co.err, e)
  BY <1>1, <1>5 DEF SameBatch, Coord
<1> QED
  BY <1>6, <1>7, <1>8 DEF q

LEMMA SendQueryEffect ==
  ASSUME IInv, NEW k \in Key, SendQuery(k)
  PROVE  LET pushed == intent[k].epoch = co.epoch /\ intent[k].ts > co.hwts
             e == IF Found(k, co.epoch, co.hwts) THEN "none"
                  ELSE IF pushed THEN "retry" ELSE "missing"
         IN /\ SameBatch /\ co.pc = "commit" /\ <<"query", k>> \in co.pend /\ UNCHANGED net
            /\ co'.pend = co.pend \ {<<"query", k>>}
            /\ co'.wts = IF pushed THEN Max2(co.wts, intent[k].ts) ELSE co.wts
            /\ co'.qerr = MergeErr(co.qerr, e) /\ co'.staged = co.staged /\ co'.err = co.err
            /\ tscache' = QueriedCache(k, co.epoch, co.hwts)
            /\ UNCHANGED <<record, tombstone, pushMark, intent, version, mine, seen, outcomes,
                           cleaned, recovery>>
<1> DEFINE pushed == intent[k].epoch = co.epoch /\ intent[k].ts > co.hwts
           ee == IF Found(k, co.epoch, co.hwts) THEN "none"
                 ELSE IF pushed THEN "retry" ELSE "missing"
<1>1. co \in Coord /\ co.amb = {}
  BY DEF IInv, TypeOK, CoInv
<1>2. PICK e : e = ee
  OBVIOUS
<1>3. PICK w : w = IF pushed THEN Max2(co.wts, intent[k].ts) ELSE co.wts
  OBVIOUS
<1>4. ErrOf(<<"query", k>>, e) = e
  BY <1>1, MergeFacts
<1>5. co' = [co EXCEPT !.pend = @ \ {<<"query", k>>}, !.wts = w, !.qerr = MergeErr(@, e)]
  BY <1>2, <1>3, <1>4 DEF SendQuery
<1>6. /\ co.pc = "commit" /\ <<"query", k>> \in co.pend /\ UNCHANGED net
      /\ tscache' = QueriedCache(k, co.epoch, co.hwts)
      /\ UNCHANGED <<record, tombstone, pushMark, intent, version, mine, seen, outcomes,
                     cleaned, recovery>>
  BY DEF SendQuery
<1>7. /\ SameBatch /\ co'.pend = co.pend \ {<<"query", k>>} /\ co'.wts = w
      /\ co'.qerr = MergeErr(co.qerr, e) /\ co'.staged = co.staged /\ co'.err = co.err
  BY <1>1, <1>5 DEF SameBatch, Coord
<1> QED
  BY <1>2, <1>3, <1>6, <1>7

LEMMA SendEndEffect ==
  ASSUME IInv, SendEnd
  PROVE  LET q == CommitRequest
             reply == EndTxnReply(q)
             ok == reply \in {"ok", "staged"}
         IN /\ SameBatch /\ co.pc = "commit" /\ End \in co.pend /\ UNCHANGED net /\ EndTxn(q)
            /\ co'.pend = co.pend \ {End} /\ co'.qerr = co.qerr
            /\ co'.staged = IF ok THEN MergedTS(q) ELSE co.staged
            /\ co'.wts = IF ok \/ reply = "retry" THEN Max2(co.wts, MergedTS(q)) ELSE co.wts
            /\ co'.err = MergeErr(co.err, IF ok THEN "none" ELSE reply)
<1> DEFINE reply == EndTxnReply(CommitRequest)
           ok == reply \in {"ok", "staged"}
<1>1. co \in Coord /\ co.amb = {} /\ ~co.fwd
  BY DEF IInv, TypeOK, CoInv
<1>2. PICK e : e = IF ok THEN "none" ELSE reply
  OBVIOUS
<1>3. PICK w : w = IF ok \/ reply = "retry" THEN Max2(co.wts, MergedTS(CommitRequest)) ELSE co.wts
  OBVIOUS
<1>4. PICK s : s = IF ok THEN MergedTS(CommitRequest) ELSE co.staged
  OBVIOUS
<1>5. ErrOf(End, e) = e
  BY <1>1, MergeFacts
<1>6. co' = [co EXCEPT !.pend = @ \ {End}, !.staged = s, !.wts = w, !.rts = co.rts,
                       !.err = MergeErr(@, e)]
  BY <1>1, <1>2, <1>3, <1>4, <1>5 DEF SendEnd
<1>7. co.pc = "commit" /\ End \in co.pend /\ UNCHANGED net /\ EndTxn(CommitRequest)
  BY DEF SendEnd
<1>8. /\ SameBatch /\ co'.pend = co.pend \ {End} /\ co'.wts = w /\ co'.staged = s
      /\ co'.qerr = co.qerr /\ co'.err = MergeErr(co.err, e)
  BY <1>1, <1>6 DEF SameBatch, Coord
<1> QED
  BY <1>2, <1>3, <1>4, <1>7, <1>8

\* A put that is evaluated is not refused, and leaves an intent of the epoch.
LEMMA PutOutcome ==
  ASSUME IInv, NEW q \in OnWay, EvalPut(q)
  PROVE  /\ ~PutRefused(q) /\ q.key \in co.keys /\ q.key \in Key
         /\ UNCHANGED <<record, tombstone, tscache, mine, outcomes, cleaned, recovery>>
         /\ \A j \in Key \ {q.key} : intent'[j] = intent[j]
         /\ intent'[q.key].epoch = co.epoch /\ intent'[q.key] # NoIntent
         /\ seen' = seen \cup {intent'[q.key]}
         /\ PutReply(q) \in Nat /\ intent'[q.key].ts \in Nat
         /\ intent'[q.key].ts <= PutReply(q) \/ \E m \in seen : m.ts = intent'[q.key].ts
         /\ co.par => PutReply(q) <= intent'[q.key].ts /\ intent[q.key].epoch < co.epoch
         /\ tscache[q.key] < PutReply(q)
<1>1. /\ q \in PutReq /\ q.key \in Key /\ q.epoch = co.epoch /\ q.key \in co.keys /\ co.epoch \in Nat
      /\ tscache[q.key] \in Nat /\ intent[q.key].epoch \in Int
  BY OnWayTypes, OnWayKeys, Fields DEF IInv
<1>2. intent[q.key] # NoIntent => intent[q.key] \in seen /\ intent[q.key].epoch <= co.epoch
  BY <1>1 DEF IInv, EpochInv
<1>3. ~PutRefused(q)
  BY <1>1, <1>2, NoIntentFacts, SMT, Z3 DEF PutRefused
<1>4. /\ UNCHANGED <<record, tombstone, tscache, mine, outcomes, cleaned, recovery>>
      /\ \A j \in Key \ {q.key} : intent'[j] = intent[j]
      /\ intent'[q.key] = [epoch |-> q.epoch, ts |-> PutTS(q)]
      /\ seen' = seen \cup {intent'[q.key]}
  BY <1>1, <1>3, EvalPutFacts DEF IInv, TypeOK
<1>5. /\ PutTS(q) \in Nat /\ PutReply(q) \in Nat /\ BumpedTS(q) \in Nat
      /\ tscache[q.key] + 1 <= BumpedTS(q) /\ BumpedTS(q) <= PutReply(q)
      /\ intent[q.key].epoch # q.epoch => PutReply(q) <= PutTS(q)
      /\ intent[q.key].epoch # q.epoch =>
           PutTS(q) <= PutReply(q)
             \/ (intent[q.key] # NoIntent /\ PutTS(q) = intent[q.key].ts)
      /\ intent[q.key].epoch = q.epoch => PutTS(q) = intent[q.key].ts
  BY <1>1, PutFacts DEF IInv, TypeOK
<1>6. intent'[q.key].epoch = co.epoch /\ intent'[q.key].ts = PutTS(q) /\ intent'[q.key] # NoIntent
  BY <1>1, <1>4, NoIntentFacts, SMT, Z3
<1>7. intent'[q.key].ts <= PutReply(q) \/ \E m \in seen : m.ts = intent'[q.key].ts
  BY <1>1, <1>2, <1>5, <1>6, NoIntentFacts, SMT, Z3
<1>8. co.par => PutReply(q) <= intent'[q.key].ts /\ intent[q.key].epoch < co.epoch
  <2>1. co.par => intent[q.key].epoch < co.epoch
    BY DEF IInv, Landed
  <2> QED
    BY <1>1, <1>5, <1>6, <2>1, SMT, Z3
<1>9. tscache[q.key] < PutReply(q)
  BY <1>1, <1>5, SMT, Z3
<1> QED
  BY <1>1, <1>3, <1>4, <1>5, <1>6, <1>7, <1>8, <1>9

LEMMA PutKeepsIInv ==
  ASSUME IInv, TypeOK', PushInv', CoInv', NetInv', SameBatch, Unevaluated' = Unevaluated,
         NEW q \in OnWay, EvalPut(q), OnWay' \subseteq OnWay, \A p \in OnWay' : p.key # q.key,
         co'.err = co.err, co'.qerr = co.qerr, co'.staged = co.staged,
         co'.pend = co.pend \ {<<"put", q.key>>},
         \/ q.wts = co.hwts /\ co'.wts = Max2(co.wts, PutReply(q))
         \/ /\ co'.wts = co.wts /\ Doomed /\ <<"put", q.key>> \notin co.pend
            /\ co.ended => Concurrent
  PROVE  IInv'
<1>1. /\ ~PutRefused(q) /\ q.key \in co.keys /\ q.key \in Key
      /\ UNCHANGED <<record, tombstone, tscache, mine, outcomes, cleaned, recovery>>
      /\ \A j \in Key \ {q.key} : intent'[j] = intent[j]
      /\ intent'[q.key].epoch = co.epoch /\ intent'[q.key] # NoIntent
      /\ seen' = seen \cup {intent'[q.key]}
      /\ PutReply(q) \in Nat /\ intent'[q.key].ts \in Nat
      /\ intent'[q.key].ts <= PutReply(q) \/ \E m \in seen : m.ts = intent'[q.key].ts
      /\ co.par => PutReply(q) <= intent'[q.key].ts /\ intent[q.key].epoch < co.epoch
      /\ tscache[q.key] < PutReply(q)
  BY PutOutcome
<1>2. Shrinks
  BY ShrinkPut DEF IInv
<1>3. /\ co.epoch \in Nat /\ co.wts \in Nat /\ co'.wts \in Nat /\ co.hwts \in Nat /\ co.keys \subseteq Key
      /\ tscache[q.key] \in Nat /\ record.epoch \in Nat /\ co.wts <= co'.wts
      /\ co'.wts \in {co.wts, PutReply(q)} /\ co.hwts <= co.wts
  <2>1. /\ co.epoch \in Nat /\ co.wts \in Nat /\ co.hwts \in Nat /\ co.keys \subseteq Key
        /\ tscache[q.key] \in Nat /\ record.epoch \in Nat
    BY <1>1, Fields DEF IInv
  <2>2. co'.wts \in Nat
    BY DEF TypeOK, Coord
  <2>3. co.hwts <= co.wts
    BY DEF IInv, CoInv
  <2>4. co'.wts = co.wts \/ co'.wts = Max2(co.wts, PutReply(q))
    OBVIOUS
  <2>5. co.wts <= co'.wts /\ co'.wts \in {co.wts, PutReply(q)}
    BY <1>1, <2>1, <2>4, SMT, Z3 DEF Max2
  <2> QED
    BY <2>1, <2>2, <2>3, <2>5
<1>4. /\ ~Committed /\ ~Committed' /\ NotFinal' = NotFinal /\ Doomed' = Doomed
      /\ Concurrent' = Concurrent /\ Continues
  BY <1>1, SameRequests DEF IInv, CommittedInv, Committed, NotFinal, Doomed, SameBatch, Continues
<1>5. (DeadBatch => DeadBatch') /\ (Dead => Dead')
  BY <1>1, <1>2, StaysDead DEF IInv, SameBatch
<1>6. co.par /\ intent'[q.key].ts > co.hwts => DeadBatch'
  <2>1. intent'[q.key].ts > co.hwts => ~Possible(intent', tscache', OnWay', q.key, co.epoch, co.hwts)
    BY <1>1, <1>3, SMT, Z3 DEF Possible
  <2> QED
    BY <1>1, <2>1 DEF DeadBatch, Alive, SameBatch
<1>7. RecoveryInv'
  <2>1. CASE record.st # "STAGING" \/ Dead
    BY <1>1, <1>2, <1>4, <2>1, RecoveriesKept DEF NeverCommits
  <2>2. CASE record.st = "STAGING" /\ ~Dead
    <3>1. co.par /\ record.epoch = co.epoch
      BY <2>2 DEF IInv, StagingInv, Current
    <3>2. ~Found(q.key, record.epoch, record.ts)
      BY <1>1, <1>3, <3>1, SMT, Z3 DEF Found
    <3>3. \A k \in record.writes : Found(k, record.epoch, record.ts) =>
            intent'[k].epoch = record.epoch /\ intent'[k].ts <= record.ts
      BY <1>1, <3>2, Fields DEF Found, IInv
    <3> QED
      BY <1>1, <1>2, <1>4, <3>3, RecoveriesKept DEF NeverCommits
  <2> QED
    BY <2>1, <2>2
<1>8. EpochInv'
  <2>1. \A m \in seen :
          /\ m.epoch <= co.epoch
          /\ \/ m.ts <= co'.wts
             \/ \E o \in outcomes : o.st # "ABORTED" /\ m.ts <= o.ts
             \/ Doomed' /\ IF Concurrent' THEN DeadBatch' ELSE ~co.ended
    BY <1>3, <1>4, <1>5, Fields, SMT, Z3 DEF IInv, EpochInv
  <2>2. \/ intent'[q.key].ts <= co'.wts
        \/ \E o \in outcomes : o.st # "ABORTED" /\ intent'[q.key].ts <= o.ts
        \/ Doomed' /\ IF Concurrent' THEN DeadBatch' ELSE ~co.ended
    <3>1. CASE \E m \in seen : m.ts = intent'[q.key].ts
      BY <2>1, <3>1
    <3>2. CASE intent'[q.key].ts <= PutReply(q) /\ co'.wts = Max2(co.wts, PutReply(q))
      BY <1>1, <1>3, <3>2, SMT, Z3 DEF Max2
    <3>3. CASE Doomed /\ (co.ended => Concurrent) /\ co'.wts = co.wts
      <4>1. co.par /\ intent'[q.key].ts > co'.wts => DeadBatch'
        BY <1>1, <1>3, <1>6, <3>3, SMT, Z3
      <4> QED
        BY <1>1, <1>3, <1>4, <3>3, <4>1, SMT, Z3 DEF Concurrent
    <3> QED
      BY <1>1, <3>1, <3>2, <3>3
  <2>3. \A m \in seen' :
          /\ m.epoch <= co.epoch
          /\ \/ m.ts <= co'.wts
             \/ \E o \in outcomes : o.st # "ABORTED" /\ m.ts <= o.ts
             \/ Doomed' /\ IF Concurrent' THEN DeadBatch' ELSE ~co.ended
    BY <1>1, <1>3, <2>1, <2>2, SMT, Z3
  <2>4. /\ \A k \in Key : intent'[k].epoch = co.epoch => k \in co.keys
        /\ \A k \in Key : intent'[k] # NoIntent => intent'[k] \in seen'
    BY <1>1 DEF IInv, EpochInv
  <2>5. record.epoch <= co.epoch /\ \A o \in outcomes : o.epoch <= co.epoch
    BY DEF IInv, EpochInv
  <2> QED
    BY <1>1, <2>3, <2>4, <2>5 DEF EpochInv, SameBatch
<1>9. Landed'
  <2>1. /\ NotFinal
        /\ \/ co.pc = "commit" /\ ~Final(co.err) /\ co.qerr = "none"
           \/ co.ended /\ ~Concurrent
        => \A k \in co.keys : \/ <<"put", k>> \in co'.pend \/ <<"query", k>> \in co'.pend
                              \/ intent'[k].epoch = co.epoch
    BY <1>1, <1>3, Requests DEF IInv, Landed
  <2>2. co.par => \A p \in OnWay' : intent'[p.key].epoch < co.epoch
    BY <1>1, OnWayTypes DEF IInv, Landed
  <2> QED
    BY <1>4, <2>1, <2>2 DEF Landed, SameBatch, Final
<1>10. NoticeInv'
  <2>1. co.par /\ co'.wts > co.hwts =>
          DeadBatch' \/ (~Unevaluated /\ ~(record.st = "STAGING" /\ record.epoch = co.epoch))
    <3>1. CASE co.wts > co.hwts
      BY <1>5, <3>1 DEF IInv, NoticeInv
    <3>2. CASE ~(co.wts > co.hwts)
      BY <1>1, <1>3, <1>6, <3>2, SMT, Z3
    <3> QED
      BY <3>1, <3>2
  <2>2. co.par /\ co.pc = "commit" /\ co.qerr # "none" => DeadBatch'
    BY <1>5 DEF IInv, NoticeInv
  <2>3. co.par /\ co.pc = "commit" /\ co.qerr = "retry" => co'.wts > co.hwts
    BY <1>3, SMT, Z3 DEF IInv, NoticeInv
  <2>4. (co.pc = "commit" /\ co.err = "aborted") \/ co.told = "aborted" => ~NotFinal
    BY DEF IInv, NoticeInv
  <2> QED
    BY <1>1, <1>4, <2>1, <2>2, <2>3, <2>4 DEF NoticeInv, SameBatch
<1>11. StagingInv'
  BY <1>1, <1>5 DEF IInv, StagingInv, Superseded, Current, SameBatch
<1>12. FinalInv' /\ CommittedInv'
  BY <1>1, <1>4 DEF IInv, FinalInv, CommittedInv
<1>13. AckInv'
  <2>1. ASSUME co.staged # 0, co.pc = "commit"
        PROVE  /\ co.par
               /\ \/ record.st = "STAGING" /\ record.epoch = co.epoch
                  \/ co.err # "none" \/ co.qerr # "none" \/ co'.wts > co.hwts
                  \/ \E k \in co.keys : /\ ~Possible(intent', tscache', OnWay', k, co.epoch, co.hwts)
                                        /\ <<"put", k>> \in co'.pend \/ <<"query", k>> \in co'.pend
    <3>1. co.par /\ (co.wts > co.hwts => co'.wts > co.hwts)
      BY <1>3, <1>4, <2>1, SMT, Z3 DEF IInv, AckInv
    <3>2. ASSUME NEW k \in co.keys, ~Alive(k, co.epoch, co.hwts),
                 <<"put", k>> \in co.pend \/ <<"query", k>> \in co.pend
          PROVE  \/ co'.wts > co.hwts
                 \/ /\ ~Possible(intent', tscache', OnWay', k, co.epoch, co.hwts)
                    /\ <<"put", k>> \in co'.pend \/ <<"query", k>> \in co'.pend
      <4>1. ~Possible(intent', tscache', OnWay', k, co.epoch, co.hwts)
        BY <1>2, <1>3, <3>2 DEF Shrinks, Alive
      <4>2. CASE k # q.key \/ <<"query", k>> \in co.pend
        BY <3>2, <4>1, <4>2, Requests
      <4>3. CASE k = q.key /\ <<"put", k>> \in co.pend
        <5>1. q.wts = co.hwts /\ co'.wts = Max2(co.wts, PutReply(q)) /\ q.epoch = co.epoch
          BY <4>3, OnWayKeys DEF IInv
        <5>2. co.hwts <= tscache[q.key]
          BY <1>3, <3>2, <4>3, <5>1, SMTT(30), Z3 DEF Alive, Possible
        <5> QED
          BY <1>1, <1>3, <5>1, <5>2, SMT, Z3 DEF Max2
      <4> QED
        BY <3>2, <4>2, <4>3
    <3> QED
      BY <1>4, <2>1, <3>1, <3>2 DEF IInv, AckInv
  <2>2. co.told # "committed"
    <3> SUFFICES ASSUME co.told = "committed" PROVE FALSE
      OBVIOUS
    <3>1. co.par /\ Found(q.key, co.epoch, co.hwts)
      BY <1>1, <1>4 DEF IInv, AckInv
    <3> QED
      BY <1>1, <1>3, <3>1, SMT, Z3 DEF Found
  <2> QED
    BY <1>1, <2>1, <2>2 DEF AckInv, Alive, SameBatch
<1> QED
  BY <1>7, <1>8, <1>9, <1>10, <1>11, <1>12, <1>13 DEF IInv

LEMMA SendPutKeepsIInv ==
  ASSUME IInv, TypeOK', PushInv', NEW k \in Key, SendPut(k)
  PROVE  IInv'
<1> DEFINE q == PutRequest(k, co.hrts, co.hwts)
<1>1. /\ SameBatch /\ co.pc = "commit" /\ <<"put", k>> \in co.pend /\ UNCHANGED net
      /\ co'.pend = co.pend \ {<<"put", k>>} /\ co'.wts = Max2(co.wts, PutReply(q))
      /\ co'.qerr = co.qerr /\ co'.staged = co.staged /\ EvalPut(q)
      /\ co'.err = IF PutRefused(q) THEN MergeErr(co.err, "error") ELSE co.err
  BY SendPutEffect
<1>2. q \in OnWay /\ q.key = k /\ q.wts = co.hwts
  BY <1>1, OnWayTypes DEF IInv, PutRequest
<1> HIDE DEF q
<1>3. co'.err = co.err /\ PutReply(q) \in Nat
  BY <1>1, <1>2, PutOutcome
<1>4. OnWay' \subseteq OnWay /\ \A p \in OnWay' : p.key # k
  <2>1. OnWay' = {PutRequest(j, co.hrts, co.hwts) : j \in {i \in Key : <<"put", i>> \in co'.pend}}
                   \cup {p \in net' : p.type = "put"}
    BY <1>1, SameRequests
  <2>2. \A p \in net : p.type = "put" => p.key # k
    BY <1>1 DEF IInv, NetInv
  <2>3. \A j \in Key : <<"put", j>> \in co'.pend => j # k /\ <<"put", j>> \in co.pend
    BY <1>1
  <2>4. \A j \in Key : PutRequest(j, co.hrts, co.hwts).key = j
    BY DEF PutRequest
  <2>5. ASSUME NEW p \in OnWay'
        PROVE  p \in OnWay /\ p.key # k
    <3>1. CASE p \in net' /\ p.type = "put"
      BY <1>1, <2>2, <3>1 DEF OnWay
    <3>2. ASSUME NEW j \in Key, <<"put", j>> \in co'.pend, p = PutRequest(j, co.hrts, co.hwts)
          PROVE  p \in OnWay /\ p.key # k
      BY <2>3, <2>4, <3>2 DEF OnWay
    <3> QED
      BY <2>1, <3>1, <3>2
  <2> QED
    BY <2>5
<1>5. Unevaluated' = Unevaluated
  <2>1. End \in co'.pend <=> End \in co.pend
    BY <1>1, Requests
  <2> QED
    BY <1>1, <2>1 DEF Unevaluated, SameBatch
<1>6. Doomed' = Doomed /\ Concurrent' = Concurrent
  BY <1>1, <1>3, SameRequests DEF Doomed, SameBatch
<1>7. CoInv'
  <2>1. co.hwts <= co'.wts /\ co.rts <= co'.wts
    BY <1>1, <1>3, Clocks, SMT, Z3 DEF IInv, CoInv, Max2
  <2>2. ~(co.ended /\ ~Concurrent)
    BY <1>1, Requests DEF IInv, CoInv
  <2>3. co'.pend \subseteq co.pend /\ (End \in co'.pend <=> End \in co.pend)
    BY <1>1, Requests
  <2> QED
    BY <1>1, <1>3, <1>5, <1>6, <2>1, <2>2, <2>3 DEF IInv, CoInv, SameBatch
<1>8. NetInv'
  <2>1. /\ CommitRequest' = CommitRequest /\ ExplicitCommit' = ExplicitCommit
    BY <1>1, SameRequests
  <2> QED
    BY <1>1, <1>6, <2>1, SMT, Z3 DEF IInv, NetInv, SameBatch
<1> QED
  BY <1>1, <1>2, <1>3, <1>4, <1>5, <1>7, <1>8, PutKeepsIInv

LEMMA DeliverPutKeepsIInv ==
  ASSUME IInv, TypeOK', PushInv', NEW q \in net, q.type = "put", Deliver(q)
  PROVE  IInv'
<1>1. EvalPut(q) /\ net' = net \ {q} /\ UNCHANGED co
  BY DEF Deliver
<1>2. q \in OnWay /\ Doomed /\ <<"put", q.key>> \notin co.pend /\ (co.ended => Concurrent)
      /\ \A p \in net : p.type = "put" /\ p.key = q.key => p = q
  BY OnWayTypes DEF IInv, NetInv
<1>3. SameBatch
  BY <1>1 DEF SameBatch
<1>4. OnWay' \subseteq OnWay /\ \A p \in OnWay' : p.key # q.key
  <2>1. OnWay' = {PutRequest(j, co.hrts, co.hwts) : j \in {i \in Key : <<"put", i>> \in co.pend}}
                   \cup {p \in net \ {q} : p.type = "put"}
    BY <1>1, <1>3, SameRequests
  <2>2. \A j \in Key : PutRequest(j, co.hrts, co.hwts).key = j
    BY DEF PutRequest
  <2> QED
    BY <1>2, <2>1, <2>2 DEF OnWay
<1>5. Unevaluated' = Unevaluated
  BY <1>1 DEF Unevaluated
<1>6. CoInv'
  BY <1>1, <1>5 DEF IInv, CoInv, Concurrent
<1>7. NetInv'
  <2>1. /\ CommitRequest' = CommitRequest /\ ExplicitCommit' = ExplicitCommit /\ Concurrent' = Concurrent
    BY <1>1, <1>3, SameRequests
  <2>2. Doomed' = Doomed
    BY <1>1 DEF Doomed
  <2> QED
    BY <1>1, <2>1, <2>2 DEF IInv, NetInv
<1>8. co'.pend = co.pend \ {<<"put", q.key>>}
  BY <1>1, <1>2
<1> QED
  BY <1>1, <1>2, <1>3, <1>4, <1>5, <1>6, <1>7, <1>8, PutKeepsIInv

LEMMA SendQueryKeepsIInv ==
  ASSUME IInv, TypeOK', PushInv', NEW k \in Key, SendQuery(k)
  PROVE  IInv'
<1> DEFINE pushed == intent[k].epoch = co.epoch /\ intent[k].ts > co.hwts
           found == Found(k, co.epoch, co.hwts)
<1>0. PICK e \in {"none", "retry", "missing"} :
         e = IF found THEN "none" ELSE IF pushed THEN "retry" ELSE "missing"
  OBVIOUS
<1>1. /\ SameBatch /\ co.pc = "commit" /\ <<"query", k>> \in co.pend /\ UNCHANGED net
      /\ co'.pend = co.pend \ {<<"query", k>>}
      /\ co'.wts = IF pushed THEN Max2(co.wts, intent[k].ts) ELSE co.wts
      /\ co'.qerr = MergeErr(co.qerr, e) /\ co'.staged = co.staged /\ co'.err = co.err
      /\ tscache' = QueriedCache(k, co.epoch, co.hwts)
      /\ UNCHANGED <<record, tombstone, intent, mine, seen, outcomes, cleaned, recovery>>
  BY <1>0, SendQueryEffect
<1>2. /\ co.epoch \in Nat /\ co.wts \in Nat /\ co.hwts \in Nat /\ co.keys \subseteq Key
      /\ intent[k].ts \in Nat /\ co.qerr \in Error /\ e \in Error /\ co.hwts <= co.wts
      /\ tscache'[k] \in Nat /\ co.rts \in Nat /\ co.rts <= co.wts
  BY Fields DEF IInv, CoInv, TypeOK, ServerTypeOK, Error
<1>3. /\ co.wts <= co'.wts /\ co'.wts \in Nat
      /\ pushed => co'.wts > co.hwts
      /\ ~pushed => co'.wts = co.wts
  BY <1>1, <1>2, SMT, Z3 DEF Max2
<1>4. /\ co'.qerr \in {co.qerr, e} /\ (co'.qerr = "none" => co.qerr = "none" /\ e = "none")
      /\ (e = "none" <=> found) /\ (e = "retry" => pushed) /\ (pushed => ~found)
  <2>1. (e = "none" <=> found) /\ (e = "retry" => pushed)
    BY <1>0
  <2>2. pushed => ~found
    BY <1>2, SMT, Z3 DEF Found
  <2> QED
    BY <1>1, <1>2, <2>1, <2>2, MergeFacts
<1>5. /\ \A j \in Key : tscache[j] <= tscache'[j]
      /\ ~found => co.hwts <= tscache'[k]
  BY <1>1, <1>2, QueriedCacheFacts DEF IInv, TypeOK
<1>6. k \in co.keys
  <2>1. co.pend \subseteq Puts(co.batch) \cup Queries(co.piped) \cup {End} /\ co.keys = co.piped \cup co.batch
    BY <1>1 DEF IInv, CoInv
  <2> QED
    BY <1>1, <2>1, Requests, SMT, Z3
<1> HIDE DEF pushed, found
<1>7. /\ \A j \in Key : <<"put", j>> \in co'.pend <=> <<"put", j>> \in co.pend
      /\ \A j \in Key \ {k} : <<"query", j>> \in co'.pend <=> <<"query", j>> \in co.pend
      /\ End \in co'.pend <=> End \in co.pend
      /\ co'.pend \subseteq co.pend
  BY <1>1, Requests
<1>8. OnWay' = OnWay
  BY <1>1, <1>7, SameRequests DEF OnWay
<1>9. Unevaluated' = Unevaluated /\ Doomed' = Doomed /\ Concurrent' = Concurrent /\ Continues
      /\ Committed' = Committed /\ NotFinal' = NotFinal
  BY <1>1, <1>7, SameRequests DEF Unevaluated, Doomed, SameBatch, Continues, Committed, NotFinal
<1>10. Shrinks
  BY <1>1, <1>5, <1>8, ShrinkFrame DEF IInv
<1>11. (DeadBatch => DeadBatch') /\ (Dead => Dead')
  BY <1>1, <1>10, StaysDead DEF IInv, SameBatch
<1>12. ~found => DeadBatch'
  <2>1. ~found => ~Possible(intent', tscache', OnWay', k, co.epoch, co.hwts)
    BY <1>1, <1>2, <1>5, SMT, Z3 DEF Possible, found, Found
  <2> QED
    BY <1>1, <1>6, <2>1 DEF DeadBatch, Alive, SameBatch
<1>13. CoInv'
  <2>1. ~(co.ended /\ ~Concurrent)
    BY <1>1, Requests DEF IInv, CoInv
  <2>2. co'.qerr \in {"none", "retry", "missing", "absent", "ambiguous"}
    BY <1>1, <1>4 DEF IInv, CoInv
  <2>3. co.hwts <= co'.wts /\ co.rts <= co'.wts
    BY <1>2, <1>3, SMTT(30), Z3
  <2> QED
    BY <1>1, <1>7, <1>9, <2>1, <2>2, <2>3 DEF IInv, CoInv, SameBatch
<1>14. NetInv'
  <2>1. /\ CommitRequest' = CommitRequest /\ ExplicitCommit' = ExplicitCommit
    BY <1>1, SameRequests
  <2> QED
    BY <1>1, <1>7, <1>9, <2>1, OnWayTypes, SMTT(30), Z3 DEF IInv, NetInv, SameBatch
<1>15. RecoveryInv'
  BY <1>1, <1>9, <1>10, RecoveriesKept DEF Found, NeverCommits
<1>16. EpochInv'
  <2>1. \A m \in seen :
          /\ m.epoch <= co.epoch
          /\ \/ m.ts <= co'.wts
             \/ \E o \in outcomes : o.st # "ABORTED" /\ m.ts <= o.ts
             \/ Doomed' /\ IF Concurrent' THEN DeadBatch' ELSE ~co.ended
    BY <1>2, <1>3, <1>9, <1>11, Fields, SMTT(30), Z3 DEF IInv, EpochInv
  <2> QED
    BY <1>1, <2>1 DEF IInv, EpochInv, SameBatch
<1>17. Landed'
  <2>1. ~(co.ended /\ ~Concurrent)
    BY <1>1, Requests DEF IInv, CoInv
  <2>2. NotFinal /\ co.pc = "commit" /\ ~Final(co.err) /\ co'.qerr = "none"
        => \A j \in co.keys : \/ <<"put", j>> \in co'.pend \/ <<"query", j>> \in co'.pend
                              \/ intent[j].epoch = co.epoch
    BY <1>2, <1>4, <1>7 DEF IInv, Landed, found, Found
  <2>3. co.par => \A p \in OnWay : intent[p.key].epoch < co.epoch
    BY DEF IInv, Landed
  <2> QED
    BY <1>1, <1>8, <1>9, <2>1, <2>2, <2>3 DEF Landed, SameBatch, Final
<1>18. NoticeInv'
  <2>1. co.par /\ co'.wts > co.hwts =>
          DeadBatch' \/ (~Unevaluated /\ ~(record.st = "STAGING" /\ record.epoch = co.epoch))
    BY <1>3, <1>4, <1>11, <1>12 DEF IInv, NoticeInv
  <2>2. co.par /\ co'.qerr # "none" => DeadBatch'
    BY <1>1, <1>4, <1>11, <1>12 DEF IInv, NoticeInv
  <2>3. co.par /\ co'.qerr = "retry" => co'.wts > co.hwts
    BY <1>1, <1>2, <1>3, <1>4 DEF IInv, NoticeInv
  <2>4. (co.pc = "commit" /\ co.err = "aborted") \/ co.told = "aborted" => ~NotFinal /\ ~Committed
    BY DEF IInv, NoticeInv
  <2> QED
    BY <1>1, <1>9, <2>1, <2>2, <2>3, <2>4 DEF NoticeInv, SameBatch
<1>19. StagingInv'
  BY <1>1, <1>9, <1>11 DEF IInv, StagingInv, Superseded, Current, SameBatch
<1>20. FinalInv'
  BY <1>1, <1>9 DEF IInv, FinalInv
<1>21. CommittedInv'
  <2>1. Committed => ~pushed
    <3>1. Committed => intent[k] = NoIntent \/ found
      BY <1>6 DEF IInv, CommittedInv, found
    <3> QED
      BY <1>2, <1>4, <3>1, NoIntentFacts, SMT, Z3 DEF pushed
  <2>2. Committed => co'.wts = co.wts /\ co'.qerr \in {"none", "missing", "ambiguous"}
    BY <1>0, <1>1, <1>3, <1>4, <2>1 DEF IInv, CommittedInv
  <2> QED
    BY <1>1, <1>8, <1>9, <2>2 DEF IInv, CommittedInv, SameBatch, Found
<1>22. AckInv'
  <2>1. co.told # "committed"
    BY <1>1 DEF IInv, CoInv
  <2>2. \A j \in co.keys : ~Alive(j, co.epoch, co.hwts) /\ (<<"put", j>> \in co.pend \/ <<"query", j>> \in co.pend)
          => \/ co'.qerr # "none"
             \/ /\ ~Possible(intent', tscache', OnWay', j, co.epoch, co.hwts)
                /\ <<"put", j>> \in co'.pend \/ <<"query", j>> \in co'.pend
    <3>1. \A j \in co.keys : ~Alive(j, co.epoch, co.hwts)
            => ~Possible(intent', tscache', OnWay', j, co.epoch, co.hwts)
      BY <1>2, <1>10 DEF Shrinks, Alive
    <3>2. ~Alive(k, co.epoch, co.hwts) => co'.qerr # "none"
      BY <1>4 DEF Alive, Possible, found, Found
    <3> QED
      BY <1>2, <1>7, <3>1, <3>2
  <2>3. (co.wts > co.hwts => co'.wts > co.hwts) /\ (co.qerr # "none" => co'.qerr # "none")
    BY <1>2, <1>3, <1>4
  <2> QED
    BY <1>1, <1>9, <2>1, <2>2, <2>3 DEF IInv, AckInv, Alive, SameBatch
<1> QED
  BY <1>13, <1>14, <1>15, <1>16, <1>17, <1>18, <1>19, <1>20, <1>21, <1>22 DEF IInv

-----------------------------------------------------------------------------
(***************************************************************************)
(* EndTxn of the batch is evaluated: for the coordinator, or as a copy.    *)
(***************************************************************************)

EndEvaluated ==
  /\ SameBatch /\ co.ended /\ Unevaluated
  /\ net' \subseteq net /\ \A q \in net \ net' : q.type = "end"
  /\ \A q \in net' : ~(q.type = "end" /\ q.commit)
  /\ co'.pend = co.pend \ {End} /\ co'.qerr = co.qerr
  /\ Final(co.err) => Final(co'.err)

LEMMA EndFrame ==
  ASSUME IInv, EndEvaluated
  PROVE  /\ co.pc \in {"commit", "done"} /\ co.told # "committed" /\ co.staged = 0
         /\ ~Unevaluated' /\ ~Committed /\ (Doomed => Doomed')
         /\ OnWay' = OnWay /\ Concurrent' = Concurrent /\ Continues /\ NetInv'
         /\ \A k \in Key : (<<"put", k>> \in co'.pend <=> <<"put", k>> \in co.pend)
                           /\ (<<"query", k>> \in co'.pend <=> <<"query", k>> \in co.pend)
         /\ record.st = "STAGING" => Superseded(co, record.epoch, record.ts) /\ Dead
<1>1. co.pc \in {"commit", "done"}
  BY Fields DEF IInv, CoInv, EndEvaluated
<1>2. co.told # "committed"
  BY DEF IInv, CoInv, EndEvaluated, Unevaluated
<1>3. co.staged = 0 /\ ~Committed
  BY DEF IInv, CoInv, CommittedInv, EndEvaluated
<1>4. ~Unevaluated'
  BY <1>2 DEF Unevaluated, EndEvaluated, SameBatch
<1>5. \A k \in Key : (<<"put", k>> \in co'.pend <=> <<"put", k>> \in co.pend)
                     /\ (<<"query", k>> \in co'.pend <=> <<"query", k>> \in co.pend)
  BY Requests DEF EndEvaluated
<1>6. Concurrent' = Concurrent /\ CommitRequest' = CommitRequest
  BY SameRequests DEF EndEvaluated
<1>7. OnWay' = OnWay
  <2>1. {q \in net' : q.type = "put"} = {q \in net : q.type = "put"}
    BY DEF EndEvaluated
  <2> QED
    BY <1>5, <2>1, SameRequests DEF EndEvaluated, OnWay
<1>8. Doomed => Doomed'
  BY DEF Doomed, EndEvaluated, SameBatch
<1>9. NetInv'
  <2>1. net' # {} => Doomed'
    BY <1>8 DEF IInv, NetInv, EndEvaluated
  <2>2. \A q \in net' : /\ q \in net /\ q.epoch = co.epoch
                        /\ \/ /\ q.type = "put" /\ q.key \in co.keys /\ <<"put", q.key>> \notin co.pend
                              /\ co.ended => Concurrent
                           \/ /\ q.type = "end" /\ ~q.commit /\ q.locks # {}
                              /\ co.told \in Abstract!Failed \cup {"ambiguous"}
    BY <1>2 DEF IInv, NetInv, EndEvaluated
  <2>3. \A q, p \in net' : q.type = "put" /\ p.type = "put" /\ q.key = p.key => q = p
    BY DEF IInv, NetInv, EndEvaluated
  <2> QED
    BY <1>6, <2>1, <2>2, <2>3 DEF NetInv, EndEvaluated, SameBatch
<1>10. record.st = "STAGING" => Superseded(co, record.epoch, record.ts) /\ Dead
  BY DEF IInv, StagingInv, EndEvaluated
<1>11. Continues
  BY DEF Continues, EndEvaluated, SameBatch
<1> QED
  BY <1>1, <1>2, <1>3, <1>4, <1>5, <1>6, <1>7, <1>8, <1>9, <1>10, <1>11

LEMMA EndKeepsCoordinator ==
  ASSUME IInv, TypeOK', EndEvaluated, co.wts <= co'.wts,
         co'.staged = 0 \/ (co'.staged = co.hwts /\ co.hrts = co.hwts),
         co'.err \in {"none", "retry", "aborted", "ambiguous", "error"} \/ co'.err = co.err,
         co'.err = "error" => co.err = "error",
         co.pc = "commit" /\ co'.err = "none" => co'.staged = co.hwts
  PROVE  CoInv'
<1>1. /\ co.pc \in {"commit", "done"} /\ co.told # "committed" /\ ~Unevaluated'
      /\ Concurrent' = Concurrent /\ co.ended /\ SameBatch /\ co'.pend \subseteq co.pend
      /\ End \notin co'.pend /\ co'.qerr = co.qerr /\ net' \subseteq net
  BY EndFrame DEF EndEvaluated
<1>2. 0 < co.rts /\ co.rts <= co'.wts /\ co.hrts <= co.hwts /\ co.hwts <= co'.wts
  BY Clocks, SMT, Z3 DEF IInv, CoInv, TypeOK, Coord
<1>3. co.pc = "commit" =>
        /\ co'.err \in {"none", "retry", "aborted", "ambiguous", "error"}
        /\ co'.err = "none" => co'.staged = co.hwts
  BY DEF IInv, CoInv
<1>4. (co.pc = "commit" /\ co'.err = "error") \/ co.told \in {"error", "rolledback"} => ~co.ended
  BY DEF IInv, CoInv
<1>5. CoInv
  BY DEF IInv
<1> QED
  BY <1>1, <1>2, <1>3, <1>4, <1>5 DEF CoInv, SameBatch

LEMMA MayCommitFacts ==
  ASSUME IInv, co.ended, MayCommit(CommitRequest)
  PROVE  /\ NotFinal /\ co.hrts = co.hwts /\ cleaned = {}
         /\ MergedEpoch(CommitRequest) = co.epoch /\ MergedTS(CommitRequest) = co.hwts
         /\ \A o \in outcomes : o.st # "ABORTED" /\ o.ts <= co.hwts
         /\ CommitRequest.writes = IF co.par THEN co.keys ELSE {}
         /\ CommitRequest.writes = {} => CommitRequest.locks # {} /\ co.keys \subseteq CommitRequest.locks
         /\ co.told # "aborted" /\ (co.pc = "commit" => co.err # "aborted")
<1>1. /\ CommitRequest \in EndReq /\ ServerTypeOK
  BY RequestTypes DEF IInv, TypeOK
<1>2. /\ CommitRequest.epoch = co.epoch /\ CommitRequest.rts = co.hrts /\ CommitRequest.wts = co.hwts
      /\ CommitRequest.commit /\ ~CommitRequest.fwd /\ CommitRequest.writes = InFlight
      /\ CommitRequest.locks = (co.keys \ InFlight) \cup co.old
  BY DEF CommitRequest, IInv, CoInv
<1>3. NotFinal /\ record.epoch <= co.epoch /\ MergedTS(CommitRequest) = co.hrts
  BY <1>2 DEF MayCommit
<1>4. /\ MergedEpoch(CommitRequest) = co.epoch /\ co.hwts <= MergedTS(CommitRequest)
      /\ record.st \in {"PENDING", "STAGING"} => record.ts <= MergedTS(CommitRequest)
      /\ record.st = "none" => pushMark <= MergedTS(CommitRequest)
  BY <1>1, <1>2, <1>3, MergedFacts
<1>5. co.hrts = co.hwts
  BY <1>3, <1>4, Clocks, SMTT(30), Z3 DEF IInv, CoInv
<1>6. \A o \in outcomes : o.st # "ABORTED" /\ o.ts <= co.hwts
  <2> TAKE o \in outcomes
  <2>1. o.st # "ABORTED" /\ o.ts \in Nat /\ co.hwts \in Nat /\ record.ts \in Nat /\ pushMark \in Nat
    BY <1>3, Fields DEF IInv, FinalInv, TypeOK, ServerTypeOK
  <2>2. CASE record.st \in {"PENDING", "STAGING"}
    BY <1>3, <1>4, <1>5, <2>1, <2>2, SMTT(30), Z3 DEF IInv, PushInv
  <2>3. CASE record.st = "none" /\ ~tombstone
    BY <1>3, <1>4, <1>5, <2>1, <2>3, SMTT(30), Z3 DEF IInv, PushInv
  <2> QED
    BY <1>3, <2>1, <2>2, <2>3 DEF NotFinal
<1>7. CommitRequest.writes = IF co.par THEN co.keys ELSE {}
  BY <1>2 DEF InFlight, IInv, CoInv
<1>8. CommitRequest.writes = {} => CommitRequest.locks # {} /\ co.keys \subseteq CommitRequest.locks
  BY <1>2 DEF IInv, CoInv
<1>9. cleaned = {}
  BY <1>3 DEF IInv, FinalInv, NotFinal, Finalized
<1>10. co.told # "aborted" /\ (co.pc = "commit" => co.err # "aborted")
  BY <1>3 DEF IInv, NoticeInv
<1> QED
  BY <1>3, <1>4, <1>5, <1>6, <1>7, <1>8, <1>9, <1>10

LEMMA EndStagedKeeps ==
  ASSUME IInv, TypeOK', PushInv', EndEvaluated, Stages(CommitRequest),
         UNCHANGED <<intent, tscache, mine, seen, cleaned, recovery>>,
         co'.wts = co.wts, co'.err = co.err, co'.staged \in {0, co.hwts},
         co.pc = "commit" /\ co.err = "none" => co'.staged = co.hwts
  PROVE  IInv'
<1>1. /\ co.pc \in {"commit", "done"} /\ co.told # "committed" /\ co.staged = 0
      /\ ~Unevaluated' /\ ~Committed /\ OnWay' = OnWay /\ Concurrent' = Concurrent /\ Continues
      /\ NetInv' /\ (Doomed => Doomed')
      /\ \A k \in Key : (<<"put", k>> \in co'.pend <=> <<"put", k>> \in co.pend)
                        /\ (<<"query", k>> \in co'.pend <=> <<"query", k>> \in co.pend)
      /\ record.st = "STAGING" => Dead
  BY EndFrame
<1>2. SameBatch /\ co.ended /\ Unevaluated /\ co'.qerr = co.qerr
  BY DEF EndEvaluated
<1>3. /\ record' = [st |-> "STAGING", epoch |-> MergedEpoch(CommitRequest),
                    ts |-> MergedTS(CommitRequest), writes |-> CommitRequest.writes,
                    locks |-> CommitRequest.locks]
      /\ UNCHANGED <<tombstone, outcomes>> /\ MayCommit(CommitRequest) /\ CommitRequest.writes # {}
  BY DEF Stages
<1>4. /\ NotFinal /\ co.hrts = co.hwts /\ co.par /\ CommitRequest.writes = co.keys
      /\ MergedEpoch(CommitRequest) = co.epoch /\ MergedTS(CommitRequest) = co.hwts
      /\ \A o \in outcomes : o.st # "ABORTED"
      /\ co.told # "aborted" /\ (co.pc = "commit" => co.err # "aborted")
  BY <1>2, <1>3, MayCommitFacts
<1>5. /\ record'.st = "STAGING" /\ record'.epoch = co.epoch /\ record'.ts = co.hwts
      /\ record'.writes = co.keys
  BY <1>3, <1>4
<1>6. CoInv'
  <2>1. co.wts <= co'.wts
    BY Clocks, SMT, Z3 DEF IInv
  <2> QED
    BY <1>4, <2>1, EndKeepsCoordinator
<1>7. /\ co'.epoch = co.epoch /\ co'.keys = co.keys /\ co'.hwts = co.hwts /\ co'.hrts = co.hrts
      /\ co'.par = co.par /\ co'.pc = co.pc /\ co'.ended = co.ended /\ co'.told = co.told
  BY <1>2 DEF SameBatch
<1>8. /\ ~Committed' /\ NotFinal' /\ (DeadBatch' = DeadBatch)
  BY <1>1, <1>3, <1>5, <1>7 DEF Committed, NotFinal, DeadBatch, Alive
<1>9. Shrinks
  BY <1>1, ShrinkFrame, Fields, SMT, Z3 DEF IInv
<1>10. RecoveryInv'
  BY <1>1, <1>4, <1>9, RecoveriesKept DEF NeverCommits
<1>11. EpochInv'
  BY <1>1, <1>3, <1>5, <1>7, <1>8, Clocks, SMTT(30), Z3 DEF IInv, EpochInv
<1>12. Landed'
  BY <1>1, <1>2, <1>4, <1>7, Clocks DEF IInv, Landed, Final
<1>13. NoticeInv'
  BY <1>2, <1>4, <1>7, <1>8 DEF IInv, NoticeInv
<1>14. StagingInv'
  <2>1. co.err # "retry"
    BY <1>2 DEF IInv, CoInv
  <2> QED
    BY <1>1, <1>4, <1>5, <1>7, <2>1 DEF StagingInv, Current
<1>15. FinalInv' /\ CommittedInv'
  BY <1>3, <1>4, <1>5, <1>8 DEF IInv, FinalInv, CommittedInv, NotFinal, Finalized
<1>16. AckInv'
  BY <1>1, <1>4, <1>5, <1>7 DEF AckInv
<1> QED
  BY <1>1, <1>6, <1>10, <1>11, <1>12, <1>13, <1>14, <1>15, <1>16 DEF IInv

LEMMA EndCommittedKeeps ==
  ASSUME IInv, TypeOK', PushInv', EndEvaluated, Commits(CommitRequest),
         UNCHANGED <<intent, tscache, mine, seen, cleaned, recovery>>,
         co'.wts = co.wts, co'.err = co.err, co'.staged \in {0, co.hwts},
         co.pc = "commit" /\ co.err = "none" => co'.staged = co.hwts
  PROVE  IInv'
<1>1. /\ co.pc \in {"commit", "done"} /\ co.told # "committed" /\ co.staged = 0
      /\ ~Unevaluated' /\ ~Committed /\ OnWay' = OnWay /\ Concurrent' = Concurrent /\ Continues
      /\ NetInv' /\ (Doomed => Doomed')
      /\ record.st = "STAGING" => Dead
  BY EndFrame
<1>2. SameBatch /\ co.ended /\ Unevaluated /\ co'.qerr = co.qerr /\ co'.pend = co.pend \ {End}
  BY DEF EndEvaluated
<1>3. /\ record' = updateFinalizedTxn([st |-> "COMMITTED", epoch |-> MergedEpoch(CommitRequest),
                                       ts |-> MergedTS(CommitRequest), writes |-> {},
                                       locks |-> CommitRequest.locks])
      /\ outcomes' = outcomes \cup {[st |-> "COMMITTED", epoch |-> MergedEpoch(CommitRequest),
                                     ts |-> MergedTS(CommitRequest)]}
      /\ MayCommit(CommitRequest) /\ CommitRequest.writes = {}
  BY DEF Commits
<1>4. /\ NotFinal /\ co.hrts = co.hwts /\ cleaned = {} /\ CommitRequest.locks # {}
      /\ co.keys \subseteq CommitRequest.locks /\ ~co.par
      /\ MergedEpoch(CommitRequest) = co.epoch /\ MergedTS(CommitRequest) = co.hwts
      /\ \A o \in outcomes : o.st # "ABORTED" /\ o.ts <= co.hwts
      /\ co.told # "aborted" /\ (co.pc = "commit" => co.err # "aborted")
  <2>1. co.par => co.keys # {}
    BY DEF IInv, CoInv
  <2> QED
    BY <1>2, <1>3, <2>1, MayCommitFacts
<1>5. /\ record'.st = "COMMITTED" /\ record'.epoch = co.epoch /\ record'.ts = co.hwts
      /\ co.keys \subseteq record'.locks /\ record'.locks # {}
  BY <1>3, <1>4 DEF updateFinalizedTxn
<1>6. \A o \in outcomes' : o \in outcomes \/ (o.st = "COMMITTED" /\ o.epoch = co.epoch /\ o.ts = co.hwts)
  BY <1>3, <1>4, SMT, Z3
<1>7. \E o \in outcomes' : o.st = "COMMITTED"
  <2>1. PICK o : o = [st |-> "COMMITTED", epoch |-> MergedEpoch(CommitRequest),
                      ts |-> MergedTS(CommitRequest)]
    OBVIOUS
  <2>2. o \in outcomes' /\ o.st = "COMMITTED"
    BY <1>3, <2>1
  <2> QED
    BY <2>2
<1>8. CoInv'
  <2>1. co.wts <= co'.wts
    BY Clocks, SMT, Z3 DEF IInv
  <2> QED
    BY <1>4, <2>1, EndKeepsCoordinator
<1>9. /\ co'.epoch = co.epoch /\ co'.keys = co.keys /\ co'.hwts = co.hwts /\ co'.hrts = co.hrts
      /\ co'.par = co.par /\ co'.pc = co.pc /\ co'.ended = co.ended /\ co'.told = co.told
  BY <1>2 DEF SameBatch
<1>10. /\ ~Concurrent /\ co.wts = co.hwts /\ co.qerr = "none" /\ co.err \in {"none", "ambiguous"}
       /\ co.pend \subseteq {End}
  <2>1. ~Concurrent
    BY <1>4 DEF Concurrent
  <2> QED
    BY <1>2, <2>1 DEF IInv, CoInv
<1>11. OnWay = {}
  <2>1. \A q \in net : q.type # "put"
    BY <1>2, <1>10 DEF IInv, NetInv
  <2>2. \A k \in Key : <<"put", k>> \notin co.pend
    BY <1>10, Requests
  <2> QED
    BY <2>1, <2>2, OnWayTypes DEF IInv
<1>12. \A k \in co.keys : Found(k, co.epoch, co.hwts)
  <2> SUFFICES ASSUME NEW k \in co.keys PROVE Found(k, co.epoch, co.hwts)
    OBVIOUS
  <2>1. /\ co.epoch \in Nat /\ co.hwts \in Nat /\ k \in Key /\ intent[k].ts \in Nat
        /\ (intent[k].epoch = co.epoch => intent[k] # NoIntent) /\ \A o \in outcomes : o.ts \in Nat
    BY Fields, NoIntentFacts, SMT, Z3 DEF IInv
  <2>2. intent[k].epoch = co.epoch
    <3>1. <<"put", k>> \notin co.pend /\ <<"query", k>> \notin co.pend
      BY <1>10, Requests
    <3> QED
      BY <1>2, <1>4, <1>10, <3>1 DEF IInv, Landed
  <2>3. intent[k] \in seen
    BY <2>1, <2>2 DEF IInv, EpochInv
  <2>4. \/ intent[k].ts <= co.wts
        \/ \E o \in outcomes : intent[k].ts <= o.ts
    BY <1>2, <1>10, <2>3 DEF IInv, EpochInv
  <2> QED
    BY <1>4, <1>10, <2>1, <2>2, <2>4, SMTT(30), Z3 DEF Found
<1>13. /\ Committed' /\ ~NotFinal' /\ (DeadBatch' = DeadBatch)
  BY <1>1, <1>5, <1>9 DEF Committed, NotFinal, DeadBatch, Alive
<1>14. Shrinks
  BY <1>1, ShrinkFrame, Fields, SMT, Z3 DEF IInv
<1>15. RecoveryInv'
  BY <1>1, <1>4, <1>13, <1>14, RecoveriesKept DEF NeverCommits
<1>16. EpochInv'
  <2>1. \A o \in outcomes' : o.epoch <= co.epoch
    BY <1>6, Clocks, SMT, Z3 DEF IInv, EpochInv
  <2>2. \A m \in seen :
          /\ m.epoch <= co.epoch
          /\ \/ m.ts <= co.wts
             \/ \E o \in outcomes' : o.st # "ABORTED" /\ m.ts <= o.ts
    BY <1>2, <1>3, <1>10 DEF IInv, EpochInv
  <2>3. /\ \A k \in Key : intent[k].epoch = co.epoch => k \in co.keys
        /\ \A k \in Key : intent[k] # NoIntent => intent[k] \in seen
    BY DEF IInv, EpochInv
  <2> QED
    BY <1>5, <1>9, <2>1, <2>2, <2>3, Clocks, SMTT(30), Z3 DEF IInv, EpochInv
<1>17. Landed' /\ NoticeInv' /\ StagingInv' /\ FinalInv' /\ AckInv'
  BY <1>4, <1>5, <1>9, <1>10, <1>13 DEF Landed, NoticeInv, StagingInv, FinalInv, AckInv, Finalized
<1>18. CommittedInv'
  <2>1. \A k \in Key : mine'[k] = NoIntent
    BY <1>1 DEF Committed
  <2>2. \A o \in outcomes' : o.st # "ABORTED" /\ (o.st = "COMMITTED" => o.epoch = co.epoch /\ o.ts = co.hwts)
    BY <1>1, <1>4, <1>6 DEF Committed
  <2> QED
    BY <1>1, <1>4, <1>5, <1>7, <1>9, <1>10, <1>11, <1>12, <2>1, <2>2, <1>2 DEF CommittedInv, Found
<1> QED
  BY <1>1, <1>8, <1>15, <1>16, <1>17, <1>18 DEF IInv

LEMMA EndRefusedKeeps ==
  ASSUME IInv, TypeOK', PushInv', EndEvaluated, co.pc = "commit",
         UNCHANGED <<record, tombstone, intent, tscache, mine, seen, cleaned, recovery>>,
         co'.staged = 0,
         \/ /\ co'.err = "aborted" /\ co'.wts = co.wts /\ ~NotFinal
            /\ outcomes' \in {outcomes, outcomes \cup {AbortedReply}}
         \/ /\ co'.err \in {co.err, "retry"} /\ co'.err # "none" /\ co.wts <= co'.wts
            /\ UNCHANGED outcomes
  PROVE  IInv'
<1>1. /\ co.told # "committed" /\ co.staged = 0
      /\ ~Unevaluated' /\ ~Committed /\ OnWay' = OnWay /\ Concurrent' = Concurrent /\ Continues
      /\ NetInv' /\ (Doomed => Doomed')
      /\ \A k \in Key : (<<"put", k>> \in co'.pend <=> <<"put", k>> \in co.pend)
                        /\ (<<"query", k>> \in co'.pend <=> <<"query", k>> \in co.pend)
      /\ record.st = "STAGING" => Superseded(co, record.epoch, record.ts) /\ Dead
  BY EndFrame
<1>2. SameBatch /\ co.ended /\ Unevaluated /\ co'.qerr = co.qerr /\ (Final(co.err) => Final(co'.err))
  BY DEF EndEvaluated
<1>3. co.wts <= co'.wts /\ co'.err # "none" /\ (co'.err = "error" => co.err = "error")
  BY Clocks, SMT, Z3 DEF IInv
<1>4. CoInv'
  BY <1>3, EndKeepsCoordinator
<1>5. /\ co'.epoch = co.epoch /\ co'.keys = co.keys /\ co'.hwts = co.hwts /\ co'.hrts = co.hrts
      /\ co'.par = co.par /\ co'.pc = co.pc /\ co'.ended = co.ended /\ co'.told = co.told
  BY <1>2 DEF SameBatch
<1>6. /\ \A o \in outcomes' : o \in outcomes \/ (o = AbortedReply /\ ~NotFinal)
      /\ outcomes \subseteq outcomes'
  OBVIOUS
<1>7. \A o \in outcomes' : o \in outcomes \/ (o.st = "ABORTED" /\ o.epoch = 0 /\ ~NotFinal)
  BY <1>6, SMT, Z3 DEF AbortedReply
<1>8. /\ ~Committed' /\ NotFinal' = NotFinal /\ (DeadBatch' = DeadBatch) /\ (Dead' = Dead)
  BY <1>1, <1>5, <1>7 DEF Committed, NotFinal, DeadBatch, Dead, Alive
<1>9. Shrinks
  BY <1>1, ShrinkFrame, Fields, SMT, Z3 DEF IInv
<1>10. RecoveryInv'
  BY <1>1, <1>8, <1>9, RecoveriesKept DEF NeverCommits
<1>11. EpochInv'
  <2>1. \A o \in outcomes' : o.epoch <= co.epoch
    BY <1>7, Clocks, SMTT(30), Z3 DEF IInv, EpochInv
  <2>2. \A m \in seen :
          /\ m.epoch <= co.epoch
          /\ \/ m.ts <= co'.wts
             \/ \E o \in outcomes' : o.st # "ABORTED" /\ m.ts <= o.ts
             \/ Doomed' /\ IF Concurrent' THEN DeadBatch' ELSE ~co.ended
    <3>1. \A m \in seen : m.ts \in Nat
      BY Fields DEF IInv
    <3>2. co.wts \in Nat /\ co'.wts \in Nat
      BY Clocks DEF IInv, TypeOK, Coord
    <3> QED
      BY <1>1, <1>3, <1>6, <1>8, <3>1, <3>2, SMTT(30), Z3 DEF IInv, EpochInv
  <2> QED
    BY <1>5, <2>1, <2>2 DEF IInv, EpochInv
<1>12. Landed'
  BY <1>1, <1>2, <1>5, <1>8, Clocks DEF IInv, Landed
<1>13. NoticeInv'
  <2>1. co.par => ~(record.st = "STAGING" /\ record.epoch = co.epoch)
    BY <1>1, Clocks, SMT, Z3 DEF IInv, Superseded
  <2>2. co.par /\ co.wts > co.hwts => DeadBatch
    BY <1>2 DEF IInv, NoticeInv
  <2>3. co.wts > co.hwts => co'.wts > co.hwts
    BY <1>3, Clocks, SMT, Z3 DEF IInv, TypeOK, Coord
  <2>4. co.par /\ co.qerr = "retry" => co'.wts > co.hwts
    BY <2>3 DEF IInv, NoticeInv
  <2>5. co'.err = "aborted" \/ co.told = "aborted" => ~NotFinal
    BY DEF IInv, NoticeInv
  <2>6. co.par /\ co.qerr # "none" => DeadBatch
    BY DEF IInv, NoticeInv
  <2> QED
    BY <1>1, <1>2, <1>5, <1>8, <2>1, <2>4, <2>5, <2>6 DEF NoticeInv
<1>14. StagingInv'
  BY <1>1, <1>5, <1>8 DEF StagingInv, Superseded
<1>15. FinalInv' /\ CommittedInv'
  BY <1>7, <1>8 DEF IInv, FinalInv, CommittedInv
<1>16. AckInv'
  BY <1>1, <1>5 DEF AckInv
<1> QED
  BY <1>1, <1>4, <1>10, <1>11, <1>12, <1>13, <1>14, <1>15, <1>16 DEF IInv

LEMMA SendEndKeepsIInv ==
  ASSUME IInv, TypeOK', PushInv', SendEnd
  PROVE  IInv'
<1> DEFINE reply == EndTxnReply(CommitRequest)
           ok == reply \in {"ok", "staged"}
<1>1. /\ SameBatch /\ co.pc = "commit" /\ End \in co.pend /\ UNCHANGED net /\ EndTxn(CommitRequest)
      /\ co'.pend = co.pend \ {End} /\ co'.qerr = co.qerr
      /\ co'.staged = IF ok THEN MergedTS(CommitRequest) ELSE co.staged
      /\ co'.wts = IF ok \/ reply = "retry" THEN Max2(co.wts, MergedTS(CommitRequest)) ELSE co.wts
      /\ co'.err = MergeErr(co.err, IF ok THEN "none" ELSE reply)
  BY SendEndEffect
<1>2. CommitRequest \in EndReq /\ ServerTypeOK /\ co.err \in Error /\ co.wts \in Nat /\ co.hwts \in Nat
  BY RequestTypes, Fields DEF IInv, TypeOK
<1>3. /\ UNCHANGED <<pushMark, intent, version, tscache, mine, seen, cleaned, recovery>>
      /\ Stages(CommitRequest) \/ Commits(CommitRequest) \/ Aborts(CommitRequest) \/ Refuses(CommitRequest)
  BY <1>1, <1>2, EndTxnFacts
<1>4. /\ CommitRequest.commit /\ CommitRequest.epoch = co.epoch
      /\ co.ended /\ Unevaluated /\ co.told # "committed" /\ co.hwts <= co.wts
  BY <1>1 DEF CommitRequest, IInv, CoInv, Unevaluated
<1>5. \A q \in net : ~(q.type = "end" /\ q.commit)
  BY <1>1, <1>4 DEF IInv, NetInv
<1>6. co.staged = 0 /\ ~Committed
  BY <1>4 DEF IInv, CoInv, CommittedInv
<1> HIDE DEF reply
<1>7. ASSUME Stages(CommitRequest) \/ Commits(CommitRequest)
      PROVE  /\ EndEvaluated /\ co'.wts = co.wts /\ co'.err = co.err /\ co'.staged = co.hwts
  <2>1. ok /\ MayCommit(CommitRequest)
    BY <1>7 DEF Stages, Commits, reply
  <2>2. MergedTS(CommitRequest) = co.hwts
    BY <1>4, <2>1, MayCommitFacts
  <2>3. co'.err = co.err
    BY <1>1, <1>2, <2>1, MergeFacts
  <2>4. co'.wts = co.wts /\ co'.staged = co.hwts
    BY <1>1, <1>2, <1>4, <2>1, <2>2, SMT, Z3 DEF Max2
  <2> QED
    BY <1>1, <1>4, <1>5, <2>3, <2>4 DEF EndEvaluated
<1>8. CASE Stages(CommitRequest)
  BY <1>3, <1>7, <1>8, EndStagedKeeps
<1>9. CASE Commits(CommitRequest)
  BY <1>3, <1>7, <1>9, EndCommittedKeeps
<1>10. CASE Refuses(CommitRequest)
  <2>1. reply \in {"aborted", "retry"} /\ UNCHANGED <<record, tombstone>>
    <3>1. ~(CommitRequest.epoch < record.epoch)
      BY <1>4, Clocks, SMT, Z3 DEF IInv, EpochInv
    <3> QED
      BY <1>6, <1>10, <3>1 DEF Refuses, reply, Committed
  <2>2. co'.staged = 0
    BY <1>1, <1>6, <2>1
  <2>3. CASE reply = "aborted"
    <3>1. co'.err = "aborted" /\ co'.wts = co.wts
      BY <1>1, <1>2, <2>3, MergeFacts
    <3>2. ~NotFinal /\ outcomes' \in {outcomes, outcomes \cup {AbortedReply}}
      BY <1>10, <2>3 DEF Refuses, reply
    <3>3. EndEvaluated
      BY <1>1, <1>4, <1>5, <3>1 DEF EndEvaluated, Final
    <3> QED
      BY <1>1, <1>3, <2>1, <2>2, <3>1, <3>2, <3>3, EndRefusedKeeps
  <2>4. CASE reply = "retry"
    <3>1. co'.err = MergeErr(co.err, "retry") /\ co'.wts = Max2(co.wts, MergedTS(CommitRequest))
      BY <1>1, <2>4
    <3>2. co'.err \in {co.err, "retry"} /\ co'.err # "none" /\ (Final(co.err) => Final(co'.err))
      BY <1>2, <3>1, SMT, Z3 DEF MergeErr, Priority, Final, Error
    <3>3. co.wts <= co'.wts
      BY <1>2, <3>1, MergedFacts, SMT, Z3 DEF Max2
    <3>4. UNCHANGED outcomes
      BY <1>10, <2>4 DEF Refuses, reply, NotFinal
    <3>5. EndEvaluated
      BY <1>1, <1>4, <1>5, <3>2 DEF EndEvaluated
    <3> QED
      BY <1>1, <1>3, <2>1, <2>2, <3>2, <3>3, <3>4, <3>5, EndRefusedKeeps
  <2> QED
    BY <2>1, <2>3, <2>4
<1> QED
  BY <1>3, <1>4, <1>8, <1>9, <1>10 DEF Aborts

\* A rollback that finds the record finalized and not committed, or, after an
\* ambiguous answer, committed, cleaned up and gone.
LEMMA LateAbortKeeps ==
  ASSUME IInv, TypeOK', PushInv', UNCHANGED co, net' \subseteq net,
         \A q \in net \ net' : q.type = "end",
         UNCHANGED <<intent, tscache, mine, seen, cleaned, recovery>>,
         ~NotFinal, co.pc = "done", co.told # "committed",
         Committed => co.told = "ambiguous" /\ record.st # "COMMITTED", record.st # "STAGING",
         record'.st = "ABORTED", record'.epoch <= co.epoch,
         outcomes' = outcomes \cup {AbortedReply}
  PROVE  IInv'
<1>1. /\ CoInv' /\ NetInv' /\ OnWay' = OnWay /\ Continues
      /\ (Unevaluated' => Unevaluated) /\ Doomed' = Doomed /\ Concurrent' = Concurrent
  BY CoordinatorIdle DEF IInv
<1>2. Shrinks
  BY <1>1, ShrinkFrame, Fields, SMTT(30), Z3 DEF IInv
<1>3. \A o \in outcomes' : o \in outcomes \/ (o.st = "ABORTED" /\ o.epoch = 0)
  BY SMT, Z3 DEF AbortedReply
<1>4. Committed' = Committed /\ ~NotFinal' /\ (DeadBatch' = DeadBatch)
  <2>1. record.st # "COMMITTED" /\ record'.st # "COMMITTED"
    BY DEF Committed
  <2>2. (\E o \in outcomes' : o.st = "COMMITTED") <=> (\E o \in outcomes : o.st = "COMMITTED")
    BY <1>3
  <2> QED
    BY <1>1, <2>1, <2>2 DEF Committed, NotFinal, DeadBatch, Alive
<1>5. RecoveryInv'
  BY <1>1, <1>2, <1>4, RecoveriesKept DEF NeverCommits
<1>6. EpochInv'
  <2>1. \A o \in outcomes' : o.epoch <= co.epoch
    BY <1>3, Clocks, SMT, Z3 DEF IInv, EpochInv
  <2> QED
    BY <1>1, <1>4, <2>1 DEF IInv, EpochInv
<1>7. Landed'
  BY <1>1, <1>4 DEF IInv, Landed
<1>8. NoticeInv'
  BY <1>1, <1>4 DEF IInv, NoticeInv
<1>9. StagingInv' /\ FinalInv' /\ AckInv'
  BY <1>4 DEF StagingInv, FinalInv, AckInv, Finalized
<1>10. CommittedInv'
  <2>1. Committed => \A k \in co.keys : mine[k] # NoIntent
    BY DEF IInv, CommittedInv
  <2> QED
    BY <1>1, <1>3, <1>4, <2>1 DEF IInv, CommittedInv
<1> QED
  BY <1>1, <1>5, <1>6, <1>7, <1>8, <1>9, <1>10 DEF IInv

LEMMA LateCommitRequestKeeps ==
  ASSUME IInv, TypeOK', PushInv', NEW q \in net, q = CommitRequest, Deliver(q),
         co.told # "committed", co.ended, End \notin co.pend
  PROVE  IInv'
<1>1. /\ q \in EndReq /\ ServerTypeOK /\ q.type = "end" /\ q.commit /\ q.epoch = co.epoch
  BY RequestTypes DEF IInv, TypeOK, CommitRequest
<1>2. /\ EndTxn(q) /\ net' = net \ {q} /\ UNCHANGED <<co, left>>
  BY <1>1 DEF Deliver
<1>3. /\ UNCHANGED <<pushMark, intent, version, tscache, mine, seen, cleaned, recovery>>
      /\ Stages(q) \/ Commits(q) \/ Aborts(q) \/ Refuses(q)
  BY <1>1, <1>2, EndTxnFacts
<1>4. Unevaluated
  BY <1>1 DEF Unevaluated
<1>5. EndEvaluated
  <2>1. \A p \in net' : ~(p.type = "end" /\ p.commit)
    BY <1>2 DEF IInv, NetInv
  <2>2. co'.pend = co.pend \ {End}
    BY <1>2
  <2> QED
    BY <1>1, <1>2, <1>4, <2>1, <2>2 DEF EndEvaluated, SameBatch
<1>6. co.staged = 0 /\ (co.pc = "commit" => co.err # "none")
  <2>1. Doomed
    BY DEF IInv, NetInv
  <2> QED
    BY <1>4, <2>1 DEF IInv, CoInv, Doomed, Final
<1>7. CASE Stages(q)
  BY <1>2, <1>3, <1>5, <1>6, <1>7, EndStagedKeeps
<1>8. CASE Commits(q)
  BY <1>2, <1>3, <1>5, <1>6, <1>8, EndCommittedKeeps
<1>9. CASE Refuses(q)
  <2>1. PICK O : O = outcomes' \ outcomes
    OBVIOUS
  <2>2. outcomes' = outcomes \cup O /\ UNCHANGED <<record, tombstone>>
        /\ \A o \in O : o = AbortedReply /\ record.st = "ABORTED"
    BY <1>9, <2>1 DEF Refuses
  <2>3. \A o \in O : o.epoch <= co.epoch /\ o.st = "ABORTED" /\ record.st = "ABORTED"
    BY <2>2, Clocks, SMT, Z3 DEF IInv, AbortedReply
  <2> QED
    BY <1>1, <1>2, <1>3, <2>2, <2>3, AnswersKeep
<1> QED
  BY <1>1, <1>3, <1>7, <1>8, <1>9 DEF Aborts

LEMMA ExplicitCommitKeeps ==
  ASSUME IInv, TypeOK', PushInv', NEW q \in net, q = ExplicitCommit, Deliver(q),
         co.told = "committed", co.par
  PROVE  IInv'
<1>1. /\ q \in EndReq /\ ServerTypeOK /\ q.type = "end" /\ q.commit /\ q.epoch = co.epoch
      /\ q.writes = {} /\ q.wts = co.staged /\ q.locks = co.keys \cup co.old
  BY RequestTypes DEF IInv, TypeOK, ExplicitCommit
<1>2. /\ EndTxn(q) /\ net' = net \ {q} /\ UNCHANGED <<co, left>>
  BY <1>1 DEF Deliver
<1>3. /\ UNCHANGED <<pushMark, intent, version, tscache, mine, seen, cleaned, recovery>>
      /\ Stages(q) \/ Commits(q) \/ Aborts(q) \/ Refuses(q)
  BY <1>1, <1>2, EndTxnFacts
<1>4. co.staged = co.hwts /\ co.keys # {} /\ co.ended /\ co.pc = "done" /\ co.pend = {}
  BY DEF IInv, CoInv
<1>5. ~Unevaluated
  BY <1>4 DEF Unevaluated
<1>6. CASE Commits(q)
  <2>1. NotFinal /\ ~Committed /\ MayCommit(q)
    BY <1>6 DEF Commits, MayCommit, IInv, FinalInv
  <2>2. record.st = "STAGING" /\ record.epoch = co.epoch /\ \A k \in co.keys : Found(k, co.epoch, co.hwts)
    BY <2>1 DEF IInv, AckInv
  <2>3. Current(co, record.epoch, record.ts)
    BY <2>2, Clocks, SMT, Z3 DEF IInv, StagingInv, Superseded
  <2>4. record.ts = co.hwts
    BY <2>3 DEF Current
  <2>5. MergedEpoch(q) = record.epoch /\ MergedTS(q) = record.ts
    BY <1>1, <1>4, <2>1, <2>2, <2>4, MergedFacts, Clocks DEF IInv
  <2>6. /\ record'.st = "COMMITTED" /\ record'.epoch = record.epoch /\ record'.ts = record.ts
        /\ co.keys \subseteq record'.locks
    BY <1>1, <1>4, <1>6, <2>5 DEF Commits, updateFinalizedTxn
  <2>7. /\ \A o \in outcomes' : \/ o \in outcomes
                                \/ o.st = "COMMITTED" /\ o.epoch = record.epoch /\ o.ts = record.ts
        /\ outcomes \subseteq outcomes'
    BY <1>6, <2>5, SMT, Z3 DEF Commits
  <2>8. net' \subseteq net /\ \A p \in net \ net' : p.type = "end"
    BY <1>1, <1>2
  <2> QED
    BY <1>2, <1>3, <1>5, <2>2, <2>3, <2>6, <2>7, <2>8, CommittedKeeps
<1>7. CASE Refuses(q)
  <2>1. record.st # "ABORTED"
    BY DEF IInv, AckInv, CommittedInv
  <2>2. UNCHANGED <<record, tombstone, outcomes>>
    BY <1>7, <2>1 DEF Refuses
  <2>3. PICK O : O = {}
    OBVIOUS
  <2>4. outcomes' = outcomes \cup O
    BY <2>2, <2>3
  <2>5. net' \subseteq net /\ \A p \in net \ net' : p.type = "end"
    BY <1>1, <1>2
  <2> QED
    BY <1>2, <1>3, <2>2, <2>3, <2>4, <2>5, AnswersKeep, SMTT(30), Z3
<1> QED
  BY <1>1, <1>3, <1>6, <1>7 DEF Stages, Aborts

LEMMA RollbackKeeps ==
  ASSUME IInv, TypeOK', PushInv', NEW q \in net, q.type = "end", ~q.commit, q.locks # {},
         q.epoch = co.epoch, co.told \in Abstract!Failed \cup {"ambiguous"}, Deliver(q)
  PROVE  IInv'
<1>1. q \in EndReq /\ ServerTypeOK
  BY DEF IInv, TypeOK, PutReq
<1>2. /\ EndTxn(q) /\ net' = net \ {q} /\ UNCHANGED <<co, left>>
  BY DEF Deliver
<1>3. /\ UNCHANGED <<pushMark, intent, version, tscache, mine, seen, cleaned, recovery>>
      /\ Stages(q) \/ Commits(q) \/ Aborts(q) \/ Refuses(q)
  BY <1>1, <1>2, EndTxnFacts
<1>4. net' \subseteq net /\ \A p \in net \ net' : p.type = "end"
  BY <1>2
<1>5. /\ co.told \in {"aborted", "error", "rolledback", "ambiguous"} /\ co.pc = "done"
      /\ co.told = "aborted" => ~NotFinal /\ ~Committed
      /\ co.told \notin {"aborted", "ambiguous"} => Unevaluated
  BY DEF Abstract!Failed, IInv, CoInv, NoticeInv, Unevaluated
<1>6. co.told # "ambiguous" => ~Committed
  BY <1>5 DEF IInv, CommittedInv
<1>7. CASE Aborts(q)
  <2>1. MergedEpoch(q) <= co.epoch
    BY <1>1, MergedFacts, Clocks, SMT, Z3 DEF IInv, EpochInv
  <2>2. /\ record'.st = "ABORTED" /\ record'.epoch <= co.epoch
        /\ outcomes' = outcomes \cup {AbortedReply}
    BY <1>7, <2>1 DEF Aborts, updateFinalizedTxn
  <2>3. CASE NotFinal
    <3>1. record.st = "STAGING" => Dead \/ (co.told = "ambiguous" /\ ~NotFinal')
      BY <1>5, <2>2, <2>3 DEF IInv, StagingInv, NotFinal
    <3>2. \A o \in outcomes' : \/ o \in outcomes
                               \/ /\ o.st # "COMMITTED" /\ o.epoch <= co.epoch
                                  /\ o.st = "ABORTED" => ~NotFinal'
      BY <2>2, Clocks, SMT, Z3 DEF IInv, AbortedReply, NotFinal
    <3>3. outcomes \subseteq outcomes' /\ record'.st \notin {"STAGING", "COMMITTED"}
      BY <2>2
    <3> QED
      BY <1>2, <1>3, <1>4, <2>2, <2>3, <3>1, <3>2, <3>3, UnstagedKeeps
  <2>4. CASE ~NotFinal
    <3>1. record.st \notin {"COMMITTED", "STAGING"}
      BY <1>7, <2>4 DEF Aborts, NotFinal
    <3> QED
      BY <1>2, <1>3, <1>4, <1>5, <1>6, <2>2, <2>4, <3>1, LateAbortKeeps
  <2> QED
    BY <2>3, <2>4
<1>8. CASE Refuses(q)
  <2>1. PICK O : O = outcomes' \ outcomes
    OBVIOUS
  <2>2. outcomes' = outcomes \cup O /\ UNCHANGED <<record, tombstone>>
        /\ \A o \in O : o = AbortedReply /\ record.st = "ABORTED"
    BY <1>8, <2>1 DEF Refuses
  <2>3. \A o \in O : o.epoch <= co.epoch /\ o.st = "ABORTED" /\ record.st = "ABORTED"
    BY <2>2, Clocks, SMT, Z3 DEF IInv, AbortedReply
  <2> QED
    BY <1>2, <1>3, <1>4, <2>2, <2>3, AnswersKeep
<1> QED
  BY <1>3, <1>7, <1>8 DEF Stages, Commits, MayCommit

LEMMA DeliverKeepsIInv ==
  ASSUME IInv, TypeOK', PushInv', NEW q \in net, Deliver(q)
  PROVE  IInv'
<1>1. CASE q.type = "put"
  BY <1>1, DeliverPutKeepsIInv
<1>2. CASE q.type = "end" /\ q = CommitRequest /\ co.ended /\ End \notin co.pend /\ co.told # "committed"
  BY <1>2, LateCommitRequestKeeps
<1>3. CASE q = ExplicitCommit /\ co.told = "committed" /\ co.par
  BY <1>3, ExplicitCommitKeeps
<1>4. CASE /\ q.type = "end" /\ ~q.commit /\ q.locks # {} /\ q.epoch = co.epoch
           /\ co.told \in Abstract!Failed \cup {"ambiguous"}
  BY <1>4, RollbackKeeps
<1> QED
  BY <1>1, <1>2, <1>3, <1>4 DEF IInv, NetInv

=============================================================================
