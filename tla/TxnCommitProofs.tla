--------------------------- MODULE TxnCommitProofs ---------------------------
(***************************************************************************)
(* Proofs about module TxnCommit, for any number of keys, recovery         *)
(* managers, epochs, timestamps and disturbances.                          *)
(***************************************************************************)
EXTENDS TxnCommit, TLAPS

\* Leaves are first-order unless they cite SMT.
USE ZenonT(60)

-----------------------------------------------------------------------------
(***************************************************************************)
(* Types.                                                                  *)
(***************************************************************************)

Status == {"none", "PENDING", "STAGING", "COMMITTED", "ABORTED"}

Error == {"none", "retry", "aborted", "ambiguous", "error", "committed", "missing", "absent"}

Told == {"none", "committed", "unexpected", "rolledback", "aborted", "ambiguous", "error"}

Record == [st : Status, epoch : Nat, ts : Nat, writes : SUBSET Key, locks : SUBSET Key]

Written == [epoch : Nat, ts : Nat]

Reply == [st : Status, epoch : Nat, ts : Nat]

Recovery ==
  [pc : {"idle", "probe"}, epoch : Nat, ts : Nat, todo : SUBSET Key, missed : BOOLEAN,
   queried : BOOLEAN, changed : BOOLEAN]

PutReq == [type : {"put"}, key : Key, epoch : Nat, rts : Nat, wts : Nat]

EndReq ==
  [type : {"end"}, commit : BOOLEAN, epoch : Nat, rts : Nat, wts : Nat, fwd : BOOLEAN,
   writes : SUBSET Key, locks : SUBSET Key]

Req == Puts(Key) \cup Queries(Key) \cup {End}

Coord ==
  [pc : {"run", "resend", "commit", "done"}, epoch : Nat, rts : Nat, wts : Nat,
   fwd : BOOLEAN, keys : SUBSET Key, old : SUBSET Key, piped : SUBSET Key,
   batch : SUBSET Key, par : BOOLEAN, ended : BOOLEAN, hrts : Nat, hwts : Nat,
   pend : SUBSET Req, amb : SUBSET Req, err : Error, qerr : Error, staged : Nat,
   told : Told]

ServerTypeOK ==
  /\ record \in Record /\ (record.st = "none" => record = NoRecord)
  /\ tombstone \in BOOLEAN
  /\ pushMark \in Nat
  /\ intent \in [Key -> Written \cup {NoIntent}]
  /\ version \in [Key -> Nat]
  /\ tscache \in [Key -> Nat]
  /\ mine \in [Key -> Written \cup {NoIntent}]
  /\ seen \subseteq Written
  /\ outcomes \subseteq Reply
  /\ cleaned \subseteq Key
  /\ recovery \in [Recoverer -> Recovery]

TypeOK ==
  /\ ServerTypeOK
  /\ co \in Coord
  /\ net \subseteq PutReq \cup EndReq

-----------------------------------------------------------------------------
(***************************************************************************)
(* The promise of a push.                                                  *)
(***************************************************************************)

\* Every timestamp that was answered is covered by whatever the transaction may
\* still commit at: the record, or the push marker while there is no record.
PushInv ==
  /\ Finalized(record.st) => tombstone
  /\ \A o \in outcomes :
       /\ o.st # "none"
       /\ o.st = "COMMITTED" =>
            /\ tombstone
            /\ record.st \in {"none", "COMMITTED", "ABORTED"}
            /\ record.st = "COMMITTED" => record.ts = o.ts
            /\ \A p \in outcomes : p.st # "ABORTED" => p.ts <= o.ts
       /\ o.st # "ABORTED" =>
            /\ record.st \in {"PENDING", "STAGING", "COMMITTED"} => o.ts <= record.ts
            /\ record.st = "none" /\ ~tombstone => o.ts <= pushMark
  /\ \A k \in Key : mine[k] # NoIntent =>
       \E o \in outcomes : o.st = "COMMITTED" /\ o.ts = mine[k].ts

-----------------------------------------------------------------------------
(***************************************************************************)
(* What the operations on the server do, in terms of types and pushes.     *)
(***************************************************************************)

LEMMA MaxFacts ==
  ASSUME NEW a \in Nat, NEW b \in Nat
  PROVE  Max2(a, b) \in Nat /\ a <= Max2(a, b) /\ b <= Max2(a, b) /\ Max2(a, b) \in {a, b}
BY SMT, Z3 DEF Max2

LEMMA NoIntentFacts ==
  /\ NoIntent \notin Written /\ NoIntent.epoch = -1
  /\ \A w \in Written \cup {NoIntent} : w # NoIntent => w \in Written /\ w.epoch \in Nat /\ w.ts \in Nat
  /\ \A w \in Written \cup {NoIntent} : w.epoch \in Int /\ w.ts \in Nat
BY SMT, Z3 DEF NoIntent, Written

LEMMA NoRecordFacts ==
  /\ NoRecord \in Record /\ NoRecord.st = "none" /\ NoRecord.epoch = 0 /\ NoRecord.ts = 0
  /\ NoRecord.writes = {} /\ NoRecord.locks = {}
BY DEF NoRecord, Record, Status

\* Where a put ends up: an intent of its epoch, no earlier than the timestamp cache
\* and its header allow unless this epoch has written before.
LEMMA PutFacts ==
  ASSUME ServerTypeOK, NEW q \in PutReq
  PROVE  /\ PutTS(q) \in Nat /\ PutReply(q) \in Nat /\ BumpedTS(q) \in Nat
         /\ q.wts <= BumpedTS(q) /\ tscache[q.key] + 1 <= BumpedTS(q)
         /\ BumpedTS(q) \in {q.wts, tscache[q.key] + 1}
         /\ BumpedTS(q) <= PutReply(q)
         /\ intent[q.key].epoch # q.epoch => PutReply(q) <= PutTS(q)
         /\ intent[q.key].epoch # q.epoch =>
              PutTS(q) <= PutReply(q)
                \/ (intent[q.key] # NoIntent /\ PutTS(q) = intent[q.key].ts)
         /\ intent[q.key].epoch = q.epoch => PutTS(q) = intent[q.key].ts
<1>1. /\ q.key \in Key /\ q.wts \in Nat /\ q.rts \in Nat /\ q.epoch \in Nat
      /\ tscache[q.key] \in Nat /\ version[q.key] \in Nat
      /\ intent[q.key] \in Written \cup {NoIntent}
  BY DEF ServerTypeOK, PutReq
<1>2. /\ BumpedTS(q) \in Nat /\ q.wts <= BumpedTS(q) /\ tscache[q.key] + 1 <= BumpedTS(q)
      /\ BumpedTS(q) \in {q.wts, tscache[q.key] + 1}
  BY <1>1, SMT, Z3 DEF BumpedTS, Max2
<1>3. CASE intent[q.key] = NoIntent
  <2>1. PutTS(q) = IF TooOld(q) THEN Max2(BumpedTS(q), version[q.key] + 1) ELSE BumpedTS(q)
    BY <1>1, <1>3, NoIntentFacts, SMT, Z3 DEF PutTS
  <2>2. PutReply(q) = PutTS(q) /\ PutTS(q) \in Nat /\ BumpedTS(q) <= PutTS(q)
    BY <1>1, <1>2, <1>3, <2>1, SMT, Z3 DEF PutReply, Max2
  <2> QED
    BY <1>1, <1>2, <1>3, <2>2, NoIntentFacts, SMT, Z3
<1>4. CASE intent[q.key] # NoIntent /\ intent[q.key].epoch = q.epoch
  BY <1>1, <1>2, <1>4, NoIntentFacts DEF PutTS, PutReply
<1>5. CASE intent[q.key] # NoIntent /\ intent[q.key].epoch # q.epoch
  <2>1. PutTS(q) = Max2(BumpedTS(q), intent[q.key].ts) /\ PutReply(q) = BumpedTS(q)
    BY <1>5 DEF PutTS, PutReply
  <2> QED
    BY <1>1, <1>2, <1>5, <2>1, NoIntentFacts, SMT, Z3 DEF Max2
<1> QED
  BY <1>3, <1>4, <1>5

\* EvalPut leaves everything but the intent, and who may meet it, alone.
LEMMA EvalPutFacts ==
  ASSUME ServerTypeOK, NEW q \in PutReq, EvalPut(q)
  PROVE  /\ ServerTypeOK'
         /\ UNCHANGED <<record, tombstone, pushMark, version, tscache, mine, outcomes,
                        cleaned, recovery>>
         /\ \A k \in Key \ {q.key} : intent'[k] = intent[k]
         /\ \/ PutRefused(q) /\ UNCHANGED <<intent, seen>>
            \/ /\ ~PutRefused(q)
               /\ intent'[q.key] = [epoch |-> q.epoch, ts |-> PutTS(q)]
               /\ seen' = seen \cup {intent'[q.key]}
<1>1. q.key \in Key /\ q.epoch \in Nat /\ PutTS(q) \in Nat
  BY PutFacts DEF PutReq
<1> DEFINE i == [epoch |-> q.epoch, ts |-> PutTS(q)]
<1>2. i \in Written
  BY <1>1 DEF Written
<1>3. CASE PutRefused(q)
  BY <1>3 DEF EvalPut, ServerTypeOK
<1>4. CASE ~PutRefused(q)
  <2>1. intent' = [intent EXCEPT ![q.key] = i] /\ seen' = seen \cup {i}
    BY <1>4 DEF EvalPut
  <2> HIDE DEF i
  <2>2. intent'[q.key] = i
    BY <1>1, <2>1 DEF ServerTypeOK
  <2>3. intent' \in [Key -> Written \cup {NoIntent}] /\ seen' \subseteq Written
    BY <1>1, <1>2, <2>1 DEF ServerTypeOK
  <2>4. \A k \in Key \ {q.key} : intent'[k] = intent[k]
    BY <2>1 DEF ServerTypeOK
  <2> QED
    BY <1>4, <2>1, <2>2, <2>3, <2>4 DEF EvalPut, ServerTypeOK, i
<1> QED
  BY <1>3, <1>4

\* Nobody has finalized the record, so that it may still be committed.
NotFinal == record.st \in {"PENDING", "STAGING"} \/ (record.st = "none" /\ ~tombstone)

\* What EndTxn comes to: it stages, commits or aborts the record, or refuses.
MayCommit(q) == q.commit /\ NotFinal /\ record.epoch <= q.epoch /\ (q.fwd \/ MergedTS(q) = q.rts)

Stages(q) ==
  /\ MayCommit(q) /\ q.writes # {} /\ EndTxnReply(q) = "staged"
  /\ record' = [st |-> "STAGING", epoch |-> MergedEpoch(q), ts |-> MergedTS(q),
                writes |-> q.writes, locks |-> q.locks]
  /\ UNCHANGED <<tombstone, outcomes>>

Commits(q) ==
  /\ MayCommit(q) /\ q.writes = {} /\ EndTxnReply(q) = "ok"
  /\ record' = updateFinalizedTxn([st |-> "COMMITTED", epoch |-> MergedEpoch(q),
                                   ts |-> MergedTS(q), writes |-> {}, locks |-> q.locks])
  /\ tombstone'
  /\ outcomes' = outcomes \cup {[st |-> "COMMITTED", epoch |-> MergedEpoch(q), ts |-> MergedTS(q)]}

AbortedReply == [st |-> "ABORTED", epoch |-> 0, ts |-> 0]

Aborts(q) ==
  /\ ~q.commit /\ record.st # "COMMITTED"
  /\ record' = updateFinalizedTxn([st |-> "ABORTED", epoch |-> MergedEpoch(q),
                                   ts |-> MergedTS(q), writes |-> q.writes, locks |-> q.locks])
  /\ tombstone'
  /\ outcomes' = outcomes \cup {AbortedReply}

Refuses(q) ==
  /\ EndTxnReply(q) \in {"aborted", "committed", "error", "retry"}
  /\ EndTxnReply(q) = "aborted" => q.commit /\ record.st # "COMMITTED" /\ ~NotFinal
  /\ EndTxnReply(q) = "committed" => record.st = "COMMITTED"
  /\ EndTxnReply(q) = "error" => q.epoch < record.epoch
  /\ EndTxnReply(q) = "retry" => q.commit /\ NotFinal /\ MergedTS(q) # q.rts
  /\ UNCHANGED <<record, tombstone>>
  /\ \/ UNCHANGED outcomes
     \/ record.st = "ABORTED" /\ outcomes' = outcomes \cup {AbortedReply}

LEMMA MergedFacts ==
  ASSUME ServerTypeOK, NEW q \in EndReq
  PROVE  /\ MergedTS(q) \in Nat /\ MergedEpoch(q) \in Nat
         /\ MergedEpoch(q) \in {q.epoch, record.epoch}
         /\ NotFinal /\ record.epoch <= q.epoch => MergedEpoch(q) = q.epoch
         /\ NotFinal => q.wts <= MergedTS(q)
         /\ record.st \in {"PENDING", "STAGING"} => record.ts <= MergedTS(q)
         /\ record.st = "none" /\ q.commit => pushMark <= MergedTS(q)
         /\ NotFinal =>
              MergedTS(q) \in {q.wts} \cup (IF record.st = "none" THEN {pushMark} ELSE {record.ts})
<1>1. /\ q.epoch \in Nat /\ q.wts \in Nat /\ q.rts \in Nat /\ q.commit \in BOOLEAN
      /\ record.st \in Status /\ record.epoch \in Nat /\ record.ts \in Nat /\ pushMark \in Nat
  BY DEF EndReq, Record, ServerTypeOK
<1>2. CASE record.st = "none"
  BY <1>1, <1>2, SMT, Z3 DEF MergedTS, MergedEpoch, NotFinal, Max2
<1>3. CASE record.st = "ABORTED"
  BY <1>1, <1>3 DEF MergedTS, MergedEpoch, NotFinal, Max2
<1>4. CASE record.st \notin {"none", "ABORTED"}
  BY <1>1, <1>4, SMT, Z3 DEF MergedTS, MergedEpoch, NotFinal, Max2, Status
<1> QED
  BY <1>2, <1>3, <1>4

LEMMA EndTxnFacts ==
  ASSUME ServerTypeOK, NEW q \in EndReq, EndTxn(q)
  PROVE  /\ UNCHANGED <<pushMark, intent, version, tscache, mine, seen, cleaned, recovery>>
         /\ Stages(q) \/ Commits(q) \/ Aborts(q) \/ Refuses(q)
<1> DEFINE merged == [st |-> IF EndTxnReply(q) = "staged" THEN "STAGING"
                             ELSE IF q.commit THEN "COMMITTED" ELSE "ABORTED",
                      epoch |-> MergedEpoch(q), ts |-> MergedTS(q),
                      writes |-> q.writes, locks |-> q.locks]
<1>1. /\ q.epoch \in Nat /\ q.commit \in BOOLEAN /\ q.fwd \in BOOLEAN
      /\ record.st \in Status /\ record.epoch \in Nat /\ tombstone \in BOOLEAN
      /\ record.st = "none" => record.epoch = 0
  BY NoRecordFacts DEF EndReq, Record, ServerTypeOK
<1>2. UNCHANGED <<pushMark, intent, version, tscache, mine, seen, cleaned, recovery>>
  BY DEF EndTxn
<1>3. EndTxnReply(q) \in {"staged", "ok", "aborted", "committed", "error", "retry"}
  BY <1>1 DEF EndTxnReply
<1>4. CASE EndTxnReply(q) = "staged"
  <2>1. MayCommit(q) /\ q.writes # {}
    BY <1>1, <1>4, SMT, Z3 DEF EndTxnReply, EndTxnPushed, MayCommit, NotFinal, Status
  <2>2. record' = merged /\ UNCHANGED <<tombstone, outcomes>>
    BY <1>4 DEF EndTxn
  <2> QED
    BY <1>2, <1>4, <2>1, <2>2 DEF Stages
<1>5. CASE EndTxnReply(q) = "ok"
  <2>1. /\ record' = updateFinalizedTxn(merged) /\ tombstone' = Tombstoned(merged.st)
        /\ outcomes' = outcomes \cup {Outcome(merged)}
    BY <1>5 DEF EndTxn
  <2>2. CASE q.commit
    <3>1. MayCommit(q) /\ q.writes = {}
      BY <1>1, <1>5, <2>2, SMT, Z3 DEF EndTxnReply, EndTxnPushed, MayCommit, NotFinal, Status
    <3>2. /\ merged.st = "COMMITTED" /\ tombstone'
          /\ Outcome(merged) = [st |-> "COMMITTED", epoch |-> MergedEpoch(q), ts |-> MergedTS(q)]
      BY <1>1, <1>5, <2>1, <2>2 DEF Tombstoned, Finalized, Outcome
    <3> QED
      BY <1>2, <1>5, <2>1, <2>2, <3>1, <3>2 DEF Commits
  <2>3. CASE ~q.commit
    <3>1. /\ merged.st = "ABORTED" /\ merged.epoch = MergedEpoch(q) /\ tombstone'
          /\ Outcome(merged) = AbortedReply
      BY <1>1, <1>5, <2>1, <2>3 DEF Tombstoned, Finalized, Outcome, AbortedReply
    <3>2. record.st # "COMMITTED"
      BY <1>1, <1>5 DEF EndTxnReply
    <3> QED
      BY <1>2, <2>1, <2>3, <3>1, <3>2 DEF Aborts
  <2> QED
    BY <1>1, <2>2, <2>3
<1>6. CASE EndTxnReply(q) \in {"aborted", "committed", "error", "retry"}
  <2>1. /\ UNCHANGED <<record, tombstone>>
        /\ \/ UNCHANGED outcomes
           \/ record.st = "ABORTED" /\ outcomes' = outcomes \cup {Outcome(record)}
    BY <1>6 DEF EndTxn
  <2>2. record.st = "ABORTED" => Outcome(record) = AbortedReply
    BY DEF Outcome, AbortedReply
  <2>3. /\ EndTxnReply(q) = "aborted" => q.commit /\ record.st # "COMMITTED" /\ ~NotFinal
        /\ EndTxnReply(q) = "committed" => record.st = "COMMITTED"
        /\ EndTxnReply(q) = "error" => q.epoch < record.epoch
    BY <1>1 DEF EndTxnReply, EndTxnPushed, NotFinal, Status
  <2>4. EndTxnReply(q) = "retry" => q.commit /\ NotFinal /\ MergedTS(q) # q.rts
    BY <1>1 DEF EndTxnReply, EndTxnPushed, NotFinal, Status
  <2> QED
    BY <1>2, <1>6, <2>1, <2>2, <2>3, <2>4 DEF Refuses
<1> QED
  BY <1>3, <1>4, <1>5, <1>6

\* What PushTxn comes to: it answers with what it finds, aborts the transaction,
\* or moves the record forward.
PushAnswers(m) ==
  /\ UNCHANGED <<record, tombstone>>
  /\ pushMark <= pushMark'
  /\ \E o \in Reply :
       /\ outcomes' = outcomes \cup {o}
       /\ \/ /\ record.st \in {"PENDING", "STAGING", "COMMITTED"}
             /\ o = [st |-> record.st, epoch |-> record.epoch, ts |-> record.ts]
          \/ /\ record.st = "none" /\ ~tombstone
             /\ o.st = "PENDING" /\ o.epoch = m.epoch /\ o.ts <= pushMark'
          \/ /\ record.st = "ABORTED" \/ (record.st = "none" /\ tombstone)
             /\ o = AbortedReply

MayPush(m) == record.st = "PENDING" \/ (record.st = "STAGING" /\ PusherKnowsBetter(record, m))

PushAborts(m) ==
  /\ MayPush(m) \/ (record.st = "none" /\ ~tombstone)
  /\ \/ record.st = "none" /\ UNCHANGED record
     \/ /\ MayPush(m) /\ record'.st = "ABORTED"
        /\ record'.epoch \in {record.epoch, m.epoch}
  /\ tombstone' /\ UNCHANGED pushMark
  /\ outcomes' = outcomes \cup {AbortedReply}

PushMoves(m) ==
  /\ MayPush(m)
  /\ record'.st = "PENDING" /\ record'.epoch \in {record.epoch, m.epoch}
  /\ record.epoch <= record'.epoch /\ record.ts <= record'.ts
  /\ m.epoch <= record'.epoch /\ m.ts <= record'.ts
  /\ UNCHANGED tombstone /\ pushMark <= pushMark'
  /\ outcomes' = outcomes \cup {[st |-> "PENDING", epoch |-> record'.epoch, ts |-> record'.ts]}

LEMMA PushTxnFacts ==
  ASSUME ServerTypeOK, Finalized(record.st) => tombstone,
         NEW m \in Written, NEW type \in {"abort", "timestamp"}, NEW to \in Nat,
         PushTxn(m, type, to)
  PROVE  /\ UNCHANGED <<intent, version, tscache, mine, seen, cleaned, recovery>>
         /\ record' \in Record /\ (record'.st = "none" => record' = NoRecord)
         /\ tombstone' \in BOOLEAN /\ pushMark' \in Nat
         /\ PushAnswers(m) \/ PushAborts(m) \/ PushMoves(m)
<1> DEFINE p == SynthesizeTxnFromMeta(m)
           q == Pushee(p, m)
           pushed == IF type = "abort" THEN [q EXCEPT !.st = "ABORTED"]
                     ELSE [q EXCEPT !.ts = Max2(@, to)]
<1>1. /\ record \in Record /\ (record.st = "none" => record = NoRecord) /\ record.st \in Status
      /\ record.epoch \in Nat /\ record.ts \in Nat /\ tombstone \in BOOLEAN /\ pushMark \in Nat
      /\ m.epoch \in Nat /\ m.ts \in Nat
  BY DEF ServerTypeOK, Record, Written
<1>2. UNCHANGED <<intent, version, tscache, mine, seen, cleaned, recovery>>
  BY DEF PushTxn
<1>3. /\ p \in Record
      /\ record.st # "none" => p = record
      /\ record.st = "none" /\ tombstone => p.st = "ABORTED"
      /\ record.st = "none" /\ ~tombstone =>
           p.st = "PENDING" /\ p.epoch = m.epoch /\ m.ts <= p.ts /\ pushMark <= p.ts
  <2>1. CASE record.st # "none"
    BY <1>1, <2>1 DEF SynthesizeTxnFromMeta
  <2>2. CASE record.st = "none" /\ tombstone
    <3>1. p = [st |-> "ABORTED", epoch |-> m.epoch, ts |-> m.ts, writes |-> {}, locks |-> {}]
      BY <2>2 DEF SynthesizeTxnFromMeta, NoRecord
    <3> QED
      BY <1>1, <2>2, <3>1, SMT, Z3 DEF Record, Status
  <2>3. CASE record.st = "none" /\ ~tombstone
    <3>1. p = [st |-> "PENDING", epoch |-> m.epoch, ts |-> Max2(m.ts, pushMark), writes |-> {},
               locks |-> {}]
      BY <2>3 DEF SynthesizeTxnFromMeta, NoRecord
    <3>2. Max2(m.ts, pushMark) \in Nat /\ m.ts <= Max2(m.ts, pushMark) /\ pushMark <= Max2(m.ts, pushMark)
      BY <1>1, SMT, Z3 DEF Max2
    <3> QED
      BY <1>1, <2>3, <3>1, <3>2, SMT, Z3 DEF Record, Status
  <2> QED
    BY <1>1, <2>1, <2>2, <2>3
<1>4. /\ PushReplied(p) => /\ tombstone' = (tombstone \/ p.st = "ABORTED")
                           /\ pushMark' = IF p.st = "PENDING" THEN Max2(pushMark, p.ts) ELSE pushMark
                           /\ outcomes' = outcomes \cup {Outcome(p)}
      /\ PushReplied(pushed) =>
           /\ tombstone' = (tombstone \/ pushed.st = "ABORTED")
           /\ pushMark' = IF pushed.st = "PENDING" THEN Max2(pushMark, pushed.ts) ELSE pushMark
           /\ outcomes' = outcomes \cup {Outcome(pushed)}
  BY DEF PushReplied
<1>5. CASE PushNoop(m, type, to)
  <2>1. PushReplied(p) /\ UNCHANGED record
    BY <1>5 DEF PushTxn
  <2> HIDE DEF p
  <2>2. /\ p.st \in Status /\ p.epoch \in Nat /\ p.ts \in Nat
    BY <1>3 DEF Record
  <2>3. pushMark' \in Nat /\ pushMark <= pushMark' /\ (p.st = "PENDING" => p.ts <= pushMark')
    BY <1>1, <1>4, <2>1, <2>2, SMT, Z3 DEF Max2
  <2>4. CASE record.st \in {"PENDING", "STAGING", "COMMITTED"}
    <3>1. Outcome(p) = [st |-> record.st, epoch |-> record.epoch, ts |-> record.ts]
      BY <1>3, <2>4 DEF Outcome
    <3>2. Outcome(p) \in Reply
      BY <1>1, <3>1, SMT, Z3 DEF Reply
    <3>3. UNCHANGED tombstone
      BY <1>1, <1>3, <1>4, <2>1, <2>4
    <3> QED
      BY <1>1, <1>2, <1>4, <2>1, <2>3, <2>4, <3>1, <3>2, <3>3 DEF PushAnswers
  <2>5. CASE record.st = "none" /\ ~tombstone
    <3>1. Outcome(p) = [st |-> "PENDING", epoch |-> m.epoch, ts |-> p.ts]
      BY <1>3, <2>5 DEF Outcome
    <3>2. Outcome(p) \in Reply
      BY <1>1, <2>2, <3>1, SMT, Z3 DEF Reply, Status
    <3>3. UNCHANGED tombstone
      BY <1>1, <1>3, <1>4, <2>1, <2>5
    <3>4. Outcome(p).st = "PENDING" /\ Outcome(p).epoch = m.epoch /\ Outcome(p).ts <= pushMark'
      BY <1>3, <2>3, <2>5, <3>1, SMT, Z3
    <3> QED
      BY <1>1, <1>2, <1>4, <2>1, <2>3, <2>5, <3>2, <3>3, <3>4 DEF PushAnswers
  <2>6. CASE record.st = "ABORTED" \/ (record.st = "none" /\ tombstone)
    <3>1. p.st = "ABORTED"
      BY <1>3, <2>6
    <3>2. Outcome(p) = AbortedReply /\ AbortedReply \in Reply
      BY <3>1 DEF Outcome, AbortedReply, Reply, Status
    <3>3. UNCHANGED tombstone
      BY <1>1, <1>4, <2>1, <2>6 DEF Finalized
    <3> QED
      BY <1>1, <1>2, <1>4, <2>1, <2>3, <2>6, <3>1, <3>2, <3>3 DEF PushAnswers
  <2> QED
    BY <1>1, <2>4, <2>5, <2>6 DEF Status
<1>6. CASE ~PushNoop(m, type, to)
  <2>1. /\ PushReplied(pushed) /\ record' = (IF record.st = "none" THEN record ELSE pushed)
        /\ ~(q.st = "STAGING")
    BY <1>6 DEF PushTxn, PushIndeterminate
  <2>2. ~Finalized(p.st)
    BY <1>6 DEF PushNoop
  <2>3. /\ p.st \in Status \ {"COMMITTED", "ABORTED"} /\ p.epoch \in Nat /\ p.ts \in Nat
    BY <1>3, <2>2 DEF Record, Finalized
  <2>4. p.st # "none" /\ (record.st = "none" => ~tombstone) /\ (record.st # "none" => p = record)
    BY <1>1, <1>3, <2>3
  <2>5. /\ q \in Record /\ q.epoch \in {p.epoch, m.epoch} /\ p.ts <= q.ts
        /\ p.epoch <= q.epoch /\ m.epoch <= q.epoch /\ m.ts <= q.ts
        /\ q.st = IF PusherKnowsBetter(p, m) /\ p.st = "STAGING" THEN "PENDING" ELSE p.st
    <3> HIDE DEF p
    <3>1. p \in Record /\ m.epoch \in Nat /\ m.ts \in Nat
      BY <1>1, <1>3
    <3>2. Max2(p.epoch, m.epoch) \in {p.epoch, m.epoch} /\ Max2(p.ts, m.ts) \in Nat
          /\ p.ts <= Max2(p.ts, m.ts) /\ m.ts <= Max2(p.ts, m.ts)
          /\ p.epoch <= Max2(p.epoch, m.epoch) /\ m.epoch <= Max2(p.epoch, m.epoch)
      BY <2>3, <3>1, SMT, Z3 DEF Max2
    <3>3. q = [p EXCEPT !.epoch = Max2(p.epoch, m.epoch), !.ts = Max2(p.ts, m.ts),
                        !.st = IF PusherKnowsBetter(p, m) /\ p.st = "STAGING" THEN "PENDING"
                               ELSE p.st,
                        !.writes = IF PusherKnowsBetter(p, m) THEN {} ELSE p.writes]
      BY <3>1 DEF Pushee, Record
    <3> QED
      BY <2>3, <3>1, <3>2, <3>3 DEF Record, Status
  <2>6. q.st = "PENDING" /\ (record.st # "none" => MayPush(m))
    BY <2>1, <2>3, <2>4, <2>5 DEF MayPush, Status
  <2>7. q.ts \in Nat /\ q.epoch \in Nat
    BY <2>5 DEF Record
  <2> HIDE DEF p, q
  <2>8. CASE type = "abort"
    <3>1. pushed \in Record /\ pushed.st = "ABORTED" /\ pushed.epoch = q.epoch
      BY <2>5, <2>8 DEF Record, Status
    <3>2. Outcome(pushed) = AbortedReply
      BY <3>1 DEF Outcome, AbortedReply
    <3>3. tombstone' = TRUE /\ UNCHANGED pushMark /\ outcomes' = outcomes \cup {AbortedReply}
      BY <1>1, <1>4, <2>1, <3>1, <3>2
    <3> QED
      BY <1>1, <1>2, <2>1, <2>4, <2>5, <2>6, <3>1, <3>3 DEF PushAborts
  <2>9. CASE type = "timestamp"
    <3>1. /\ pushed \in Record /\ pushed.st = "PENDING" /\ pushed.epoch = q.epoch
          /\ q.ts <= pushed.ts /\ pushed.ts \in Nat
      BY <2>5, <2>6, <2>7, <2>9, SMT, Z3 DEF Record, Status, Max2
    <3>2. Outcome(pushed) = [st |-> "PENDING", epoch |-> q.epoch, ts |-> pushed.ts]
      BY <3>1 DEF Outcome
    <3>3. /\ UNCHANGED tombstone /\ pushMark' = Max2(pushMark, pushed.ts)
          /\ outcomes' = outcomes \cup {Outcome(pushed)}
      BY <1>1, <1>4, <2>1, <3>1
    <3>4. pushMark' \in Nat /\ pushMark <= pushMark' /\ pushed.ts <= pushMark'
      BY <1>1, <3>1, <3>3, SMT, Z3 DEF Max2
    <3>5. CASE record.st = "none"
      <4>1. Outcome(pushed) \in Reply
        BY <2>7, <3>1, <3>2, SMT, Z3 DEF Reply, Status
      <4>2. Outcome(pushed).st = "PENDING" /\ Outcome(pushed).epoch = m.epoch
            /\ Outcome(pushed).ts <= pushMark'
        BY <1>3, <2>4, <2>5, <3>2, <3>4, <3>5, SMT, Z3
      <4> QED
        BY <1>1, <1>2, <2>1, <2>4, <3>3, <3>4, <3>5, <4>1, <4>2 DEF PushAnswers
    <3>6. CASE record.st # "none"
      <4>1. record' = pushed /\ p = record /\ MayPush(m)
        BY <2>1, <2>4, <2>6, <3>6
      <4>2. record'.epoch \in {record.epoch, m.epoch}
            /\ record.epoch <= record'.epoch /\ m.epoch <= record'.epoch
        BY <2>5, <3>1, <4>1
      <4>3. record.ts <= record'.ts /\ m.ts <= record'.ts
        <5>1. m.ts \in Nat /\ record.ts \in Nat
          BY <1>1, <2>3, <4>1
        <5> QED
          BY <2>5, <2>7, <3>1, <4>1, <5>1, SMT, Z3
      <4> QED
        BY <1>1, <1>2, <3>1, <3>2, <3>3, <3>4, <4>1, <4>2, <4>3 DEF PushMoves
    <3> QED
      BY <3>5, <3>6
  <2> QED
    BY <2>8, <2>9
<1> QED
  BY <1>5, <1>6

LEMMA EndTxnKeeps ==
  ASSUME ServerTypeOK, PushInv, NEW q \in EndReq, EndTxn(q)
  PROVE  ServerTypeOK' /\ PushInv'
<1>1. /\ UNCHANGED <<pushMark, intent, version, tscache, mine, seen, cleaned, recovery>>
      /\ Stages(q) \/ Commits(q) \/ Aborts(q) \/ Refuses(q)
  BY EndTxnFacts
<1>2. /\ MergedTS(q) \in Nat /\ MergedEpoch(q) \in Nat
      /\ record.st \in {"PENDING", "STAGING"} => record.ts <= MergedTS(q)
      /\ record.st = "none" /\ q.commit => pushMark <= MergedTS(q)
  BY MergedFacts
<1>3. /\ record \in Record /\ record.st \in Status /\ record.ts \in Nat /\ outcomes \subseteq Reply
      /\ tombstone \in BOOLEAN /\ pushMark \in Nat
      /\ \A o \in outcomes : o.ts \in Nat /\ o.st \in Status
      /\ q.writes \in SUBSET Key /\ q.locks \in SUBSET Key
  BY DEF ServerTypeOK, Record, Reply, EndReq
<1>4. AbortedReply \in Reply /\ AbortedReply.st = "ABORTED"
  BY DEF AbortedReply, Reply, Status
<1>5. CASE Stages(q)
  <2>1. /\ record' = [st |-> "STAGING", epoch |-> MergedEpoch(q), ts |-> MergedTS(q),
                      writes |-> q.writes, locks |-> q.locks]
        /\ q.commit /\ NotFinal /\ UNCHANGED <<tombstone, outcomes>>
    BY <1>5 DEF Stages, MayCommit
  <2>2. record' \in Record /\ record'.st = "STAGING" /\ record'.ts = MergedTS(q)
    BY <1>2, <1>3, <2>1 DEF Record, Status
  <2>3. ServerTypeOK'
    BY <1>1, <2>1, <2>2 DEF ServerTypeOK
  <2>4. \A o \in outcomes : o.st # "COMMITTED"
    BY <1>3, <2>1 DEF PushInv, NotFinal
  <2>5. \A o \in outcomes : o.st # "ABORTED" => o.ts <= MergedTS(q)
    BY <1>2, <1>3, <2>1, SMT, Z3 DEF PushInv, NotFinal
  <2> QED
    BY <1>1, <2>1, <2>2, <2>3, <2>4, <2>5 DEF PushInv, Finalized
<1>6. CASE Commits(q)
  <2> DEFINE o1 == [st |-> "COMMITTED", epoch |-> MergedEpoch(q), ts |-> MergedTS(q)]
  <2>1. /\ record' = updateFinalizedTxn([st |-> "COMMITTED", epoch |-> MergedEpoch(q),
                                         ts |-> MergedTS(q), writes |-> {}, locks |-> q.locks])
        /\ q.commit /\ NotFinal /\ tombstone' /\ outcomes' = outcomes \cup {o1}
    BY <1>6 DEF Commits, MayCommit
  <2>2. /\ record' \in Record /\ record'.st \in {"none", "COMMITTED"}
        /\ record'.st = "none" => record' = NoRecord
        /\ record'.st = "COMMITTED" => record'.ts = MergedTS(q)
    BY <1>2, <1>3, <2>1, NoRecordFacts DEF Record, Status, updateFinalizedTxn
  <2>3. o1 \in Reply /\ o1.st = "COMMITTED" /\ o1.ts = MergedTS(q)
    BY <1>2 DEF Reply, Status
  <2> HIDE DEF o1
  <2>4. ServerTypeOK'
    <3>1. tombstone' \in BOOLEAN
      BY <1>6 DEF Commits, EndTxn
    <3> QED
      BY <1>1, <2>1, <2>2, <2>3, <3>1 DEF ServerTypeOK
  <2>5. \A o \in outcomes : o.st # "COMMITTED"
    BY <1>3, <2>1 DEF PushInv, NotFinal
  <2>6. \A o \in outcomes : o.st # "ABORTED" => o.ts <= MergedTS(q)
    BY <1>2, <1>3, <2>1, SMT, Z3 DEF PushInv, NotFinal
  <2> QED
    BY <1>1, <1>2, <2>1, <2>2, <2>3, <2>4, <2>5, <2>6, SMT, Z3 DEF PushInv, Finalized
<1>7. CASE Aborts(q)
  <2>1. /\ record' = updateFinalizedTxn([st |-> "ABORTED", epoch |-> MergedEpoch(q),
                                         ts |-> MergedTS(q), writes |-> q.writes, locks |-> q.locks])
        /\ tombstone' /\ outcomes' = outcomes \cup {AbortedReply}
    BY <1>7 DEF Aborts
  <2>2. /\ record' \in Record /\ record'.st \in {"none", "ABORTED"}
        /\ record'.st = "none" => record' = NoRecord
    BY <1>2, <1>3, <2>1, NoRecordFacts DEF Record, Status, updateFinalizedTxn
  <2>3. ServerTypeOK'
    BY <1>1, <1>4, <2>1, <2>2 DEF ServerTypeOK
  <2> QED
    BY <1>1, <1>4, <2>1, <2>2, <2>3 DEF PushInv, Finalized
<1>8. CASE Refuses(q)
  <2>1. /\ UNCHANGED <<record, tombstone>>
        /\ \/ UNCHANGED outcomes
           \/ record.st = "ABORTED" /\ outcomes' = outcomes \cup {AbortedReply}
    BY <1>8 DEF Refuses
  <2>2. ServerTypeOK'
    BY <1>1, <1>4, <2>1 DEF ServerTypeOK
  <2> QED
    BY <1>1, <1>4, <2>1, <2>2 DEF PushInv, Finalized
<1> QED
  BY <1>1, <1>5, <1>6, <1>7, <1>8

LEMMA PushTxnKeeps ==
  ASSUME ServerTypeOK, PushInv, NEW m \in Written, NEW type \in {"abort", "timestamp"},
         NEW to \in Nat, PushTxn(m, type, to)
  PROVE  ServerTypeOK' /\ PushInv'
<1>1. /\ UNCHANGED <<intent, version, tscache, mine, seen, cleaned, recovery>>
      /\ record' \in Record /\ (record'.st = "none" => record' = NoRecord)
      /\ tombstone' \in BOOLEAN /\ pushMark' \in Nat
      /\ PushAnswers(m) \/ PushAborts(m) \/ PushMoves(m)
  BY PushTxnFacts DEF PushInv
<1>2. /\ record \in Record /\ record.st \in Status /\ record.ts \in Nat /\ outcomes \subseteq Reply
      /\ tombstone \in BOOLEAN /\ pushMark \in Nat /\ record'.ts \in Nat /\ record'.epoch \in Nat
      /\ \A o \in Reply : o.ts \in Nat /\ o.st \in Status
  BY <1>1 DEF ServerTypeOK, Record, Reply
<1>3. AbortedReply \in Reply /\ AbortedReply.st = "ABORTED"
  BY DEF AbortedReply, Reply, Status
<1>4. CASE PushAnswers(m)
  <2>1. PICK o \in Reply :
          /\ outcomes' = outcomes \cup {o}
          /\ \/ /\ record.st \in {"PENDING", "STAGING", "COMMITTED"}
                /\ o = [st |-> record.st, epoch |-> record.epoch, ts |-> record.ts]
             \/ /\ record.st = "none" /\ ~tombstone
                /\ o.st = "PENDING" /\ o.epoch = m.epoch /\ o.ts <= pushMark'
             \/ /\ record.st = "ABORTED" \/ (record.st = "none" /\ tombstone)
                /\ o = AbortedReply
    BY <1>4 DEF PushAnswers
  <2>2. UNCHANGED <<record, tombstone>> /\ pushMark <= pushMark'
    BY <1>4 DEF PushAnswers
  <2>3. ServerTypeOK'
    BY <1>1, <1>2, <2>1, <2>2 DEF ServerTypeOK
  <2>4. CASE record.st \in {"PENDING", "STAGING", "COMMITTED"}
    <3>1. o.st = record.st /\ o.ts = record.ts
      BY <2>1, <2>4, SMT, Z3
    <3> QED
      BY <1>1, <1>2, <2>1, <2>2, <2>3, <2>4, <3>1, SMT, Z3 DEF PushInv, Finalized
  <2>5. CASE record.st = "none" /\ ~tombstone
    BY <1>1, <1>2, <2>1, <2>2, <2>3, <2>5, SMT, Z3 DEF PushInv, Finalized
  <2>6. CASE record.st = "ABORTED" \/ (record.st = "none" /\ tombstone)
    BY <1>1, <1>2, <1>3, <2>1, <2>2, <2>3, <2>6 DEF PushInv, Finalized
  <2> QED
    BY <1>2, <2>4, <2>5, <2>6 DEF Status
<1>5. CASE PushAborts(m)
  <2>1. /\ record'.st \in {"none", "ABORTED"} /\ tombstone' /\ UNCHANGED pushMark
        /\ outcomes' = outcomes \cup {AbortedReply}
    BY <1>5 DEF PushAborts
  <2>2. ServerTypeOK'
    BY <1>1, <1>2, <1>3, <2>1 DEF ServerTypeOK
  <2> QED
    BY <1>1, <1>3, <2>1, <2>2 DEF PushInv, Finalized
<1>6. CASE PushMoves(m)
  <2> DEFINE o1 == [st |-> "PENDING", epoch |-> record'.epoch, ts |-> record'.ts]
  <2>1. /\ record.st \in {"PENDING", "STAGING"} /\ record'.st = "PENDING"
        /\ record.ts <= record'.ts /\ UNCHANGED tombstone /\ outcomes' = outcomes \cup {o1}
    BY <1>6 DEF PushMoves, MayPush
  <2>2. o1 \in Reply /\ o1.st = "PENDING" /\ o1.ts = record'.ts
    BY <1>2 DEF Reply, Status
  <2> HIDE DEF o1
  <2>3. ServerTypeOK'
    BY <1>1, <1>2, <2>1, <2>2 DEF ServerTypeOK
  <2>4. \A o \in outcomes : o.st # "COMMITTED" /\ (o.st # "ABORTED" => o.ts <= record'.ts)
    BY <1>2, <2>1, SMT, Z3 DEF PushInv
  <2> QED
    BY <1>1, <1>2, <2>1, <2>2, <2>3, <2>4, SMT, Z3 DEF PushInv, Finalized
<1> QED
  BY <1>1, <1>4, <1>5, <1>6

LEMMA HeartbeatKeeps ==
  ASSUME ServerTypeOK, PushInv, NEW e \in Nat, NEW ts \in Nat, HeartbeatTxn(e, ts)
  PROVE  /\ ServerTypeOK' /\ PushInv'
         /\ record.st = "none" /\ ~tombstone /\ record'.st = "PENDING" /\ record'.epoch = e
<1>1. /\ record.st = "none" /\ ~tombstone
      /\ record' = [st |-> "PENDING", epoch |-> e, ts |-> Max2(ts, pushMark), writes |-> {},
                    locks |-> {}]
      /\ UNCHANGED <<tombstone, pushMark, intent, version, tscache, mine, seen, outcomes,
                     cleaned, recovery>>
  BY DEF HeartbeatTxn, NoRecord
<1>2. Max2(ts, pushMark) \in Nat /\ pushMark <= Max2(ts, pushMark)
  BY SMT, Z3 DEF ServerTypeOK, Max2
<1>3. record' \in Record /\ record'.st = "PENDING" /\ record'.ts = Max2(ts, pushMark) /\ record'.epoch = e
  BY <1>1, <1>2 DEF Record, Status
<1>4. ServerTypeOK'
  BY <1>1, <1>3 DEF ServerTypeOK
<1>5. \A o \in outcomes : o.ts \in Nat /\ o.st # "COMMITTED" /\ (o.st # "ABORTED" => o.ts <= pushMark)
  BY <1>1 DEF PushInv, ServerTypeOK, Reply
<1>6. pushMark \in Nat
  BY DEF ServerTypeOK
<1> QED
  BY <1>1, <1>2, <1>3, <1>4, <1>5, <1>6, SMT, Z3 DEF PushInv, Finalized

\* RecoverTxn commits or aborts the STAGING record, or leaves it alone.
LEMMA RecoverTxnKeeps ==
  ASSUME ServerTypeOK, PushInv, NEW r \in Recoverer, RecoverTxn(r)
  PROVE  /\ ServerTypeOK' /\ PushInv'
         /\ UNCHANGED <<pushMark, intent, version, tscache, mine, seen, outcomes, cleaned>>
         /\ Probed(recovery[r]) /\ recovery' = [recovery EXCEPT ![r] = Idle]
         /\ \/ UNCHANGED <<record, tombstone>>
            \/ /\ record.st = "STAGING" /\ ~recovery[r].changed /\ CanRecover(recovery[r])
               /\ record'.st = IF recovery[r].missed THEN "ABORTED" ELSE "COMMITTED"
               /\ record'.epoch = record.epoch /\ record'.ts = record.ts
               /\ record'.locks = record.locks \cup record.writes /\ tombstone'
<1> DEFINE v == recovery[r]
           recovered == [record EXCEPT !.st = IF v.missed THEN "ABORTED" ELSE "COMMITTED",
                                       !.locks = @ \cup record.writes, !.writes = {}]
<1>1. /\ UNCHANGED <<pushMark, intent, version, tscache, mine, seen, outcomes, cleaned>>
      /\ Probed(v) /\ recovery' = [recovery EXCEPT ![r] = Idle]
  BY DEF RecoverTxn
<1>2. recovery' \in [Recoverer -> Recovery]
  <2>1. Idle \in Recovery
    BY DEF Idle, Recovery
  <2> QED
    BY <1>1, <2>1 DEF ServerTypeOK
<1>3. CASE ~v.changed /\ CanRecover(v)
  <2>1. record' = recovered /\ tombstone' = Tombstoned(recovered.st) /\ record.st = "STAGING"
    BY <1>3 DEF RecoverTxn, CanRecover
  <2>2. /\ recovered \in Record /\ recovered.st = (IF v.missed THEN "ABORTED" ELSE "COMMITTED")
        /\ recovered.epoch = record.epoch /\ recovered.ts = record.ts
        /\ recovered.locks = record.locks \cup record.writes
    BY DEF ServerTypeOK, Record, Status
  <2> HIDE DEF recovered
  <2>3. tombstone' = TRUE /\ Finalized(recovered.st) /\ recovered.st # "none"
    BY <2>1, <2>2 DEF Tombstoned, Finalized
  <2>4. ServerTypeOK'
    BY <1>1, <1>2, <2>1, <2>2, <2>3 DEF ServerTypeOK
  <2>5. PushInv'
    BY <1>1, <2>1, <2>2, <2>3 DEF PushInv
  <2> QED
    BY <1>1, <1>3, <2>1, <2>2, <2>3, <2>4, <2>5
<1>4. CASE ~(~v.changed /\ CanRecover(v))
  <2>1. UNCHANGED <<record, tombstone>>
    BY <1>4 DEF RecoverTxn
  <2>2. ServerTypeOK' /\ PushInv'
    BY <1>1, <1>2, <2>1 DEF ServerTypeOK, PushInv
  <2> QED
    BY <1>1, <2>1, <2>2
<1> QED
  BY <1>3, <1>4

\* What ResolveIntent does to the intent i on k: it is removed, becomes the
\* committed value, or moves to the pushed timestamp.
Removed(k, o) ==
  /\ \/ intent[k] = NoIntent \/ intent[k].epoch < o.epoch \/ o.st = "ABORTED"
     \/ o.st = "COMMITTED" /\ ~Found(k, o.epoch, o.ts)
  /\ intent'[k] = NoIntent /\ UNCHANGED <<mine, version, seen>>

Installed(k, o) ==
  /\ intent[k] # NoIntent /\ o.st = "COMMITTED" /\ intent[k].epoch = o.epoch
  /\ intent[k].ts <= o.ts
  /\ intent'[k] = NoIntent /\ UNCHANGED seen
  /\ mine' = [mine EXCEPT ![k] = [epoch |-> o.epoch, ts |-> o.ts]]

Moved(k, o) ==
  /\ intent[k] # NoIntent /\ ~Finalized(o.st)
  /\ intent'[k].epoch = intent[k].epoch /\ o.epoch <= intent[k].epoch
  /\ intent'[k].ts \in {intent[k].ts, o.ts} /\ intent[k].ts <= intent'[k].ts
  /\ o.ts <= intent'[k].ts
  /\ seen' = seen \cup {intent'[k]} /\ UNCHANGED <<mine, version>>

LEMMA ResolveIntentKeeps ==
  ASSUME ServerTypeOK, PushInv, NEW k \in Key, NEW o \in outcomes, ResolveIntent(k, o)
  PROVE  /\ ServerTypeOK' /\ PushInv'
         /\ UNCHANGED <<record, tombstone, pushMark, tscache, outcomes, recovery>>
         /\ \A j \in Key \ {k} : intent'[j] = intent[j]
         /\ Removed(k, o) \/ Installed(k, o) \/ Moved(k, o)
         /\ cleaned' = IF Finalized(record.st) /\ o = Outcome(record) THEN cleaned \cup {k}
                       ELSE cleaned
<1> DEFINE i == intent[k]
           commit == o.st = "COMMITTED" /\ i.epoch = o.epoch /\ i.ts <= o.ts
           inProgress == ~Finalized(o.st) /\ i.epoch >= o.epoch
           after == IF i = NoIntent \/ commit \/ ~inProgress THEN NoIntent
                    ELSE [i EXCEPT !.ts = Max2(@, o.ts)]
<1>1. /\ UNCHANGED <<record, tombstone, pushMark, tscache, outcomes, recovery>>
      /\ cleaned' = IF Finalized(record.st) /\ o = Outcome(record) THEN cleaned \cup {k}
                    ELSE cleaned
      /\ intent' = [intent EXCEPT ![k] = after]
      /\ seen' = IF after = NoIntent THEN seen ELSE seen \cup {after}
      /\ IF i # NoIntent /\ commit
           THEN /\ mine' = [mine EXCEPT ![k] = [epoch |-> o.epoch, ts |-> o.ts]]
                /\ version' = [version EXCEPT ![k] = o.ts]
           ELSE UNCHANGED <<mine, version>>
  BY DEF ResolveIntent
<1>2. /\ i \in Written \cup {NoIntent} /\ o \in Reply /\ o.epoch \in Nat /\ o.ts \in Nat
      /\ i.epoch \in Int /\ i.ts \in Nat /\ (i # NoIntent => i \in Written /\ i.epoch \in Nat)
  BY NoIntentFacts DEF ServerTypeOK, Reply
<1>3. cleaned' \in SUBSET Key
  BY <1>1 DEF ServerTypeOK
<1>4. CASE i # NoIntent /\ ~commit /\ inProgress
  <2>1. after = [epoch |-> i.epoch, ts |-> Max2(i.ts, o.ts)]
    BY <1>2, <1>4 DEF Written
  <2>2. Max2(i.ts, o.ts) \in {i.ts, o.ts} /\ i.ts <= Max2(i.ts, o.ts) /\ o.ts <= Max2(i.ts, o.ts)
    BY <1>2, SMT, Z3 DEF Max2
  <2>3. after \in Written /\ after # NoIntent
    BY <1>2, <1>4, <2>1, <2>2, NoIntentFacts DEF Written
  <2> HIDE DEF after
  <2>4. /\ intent' \in [Key -> Written \cup {NoIntent}] /\ intent'[k] = after
        /\ \A j \in Key \ {k} : intent'[j] = intent[j]
    BY <1>1, <2>3 DEF ServerTypeOK
  <2>5. seen' = seen \cup {after} /\ UNCHANGED <<mine, version>>
    BY <1>1, <1>4, <2>3
  <2>6. ServerTypeOK' /\ PushInv'
    BY <1>1, <1>3, <2>3, <2>4, <2>5 DEF ServerTypeOK, PushInv
  <2>7. Moved(k, o)
    BY <1>2, <1>4, <2>1, <2>2, <2>4, <2>5, SMT, Z3 DEF Moved
  <2> QED
    BY <1>1, <2>4, <2>6, <2>7
<1>5. CASE ~(i # NoIntent /\ ~commit /\ inProgress)
  <2>1. after = NoIntent
    BY <1>5
  <2>2. /\ intent' \in [Key -> Written \cup {NoIntent}] /\ intent'[k] = NoIntent
        /\ \A j \in Key \ {k} : intent'[j] = intent[j]
    BY <1>1, <2>1 DEF ServerTypeOK
  <2>3. UNCHANGED seen
    BY <1>1, <2>1
  <2>4. CASE i # NoIntent /\ commit
    <3>1. [epoch |-> o.epoch, ts |-> o.ts] \in Written
      BY <1>2 DEF Written
    <3>2. /\ mine' = [mine EXCEPT ![k] = [epoch |-> o.epoch, ts |-> o.ts]]
          /\ version' = [version EXCEPT ![k] = o.ts]
      BY <1>1, <2>4
    <3>3. ServerTypeOK'
      BY <1>1, <1>2, <1>3, <2>2, <2>3, <3>1, <3>2 DEF ServerTypeOK
    <3>4. \A j \in Key : mine'[j] # NoIntent =>
            \E p \in outcomes : p.st = "COMMITTED" /\ p.ts = mine'[j].ts
      BY <2>4, <3>2 DEF ServerTypeOK, PushInv
    <3>5. PushInv'
      BY <1>1, <3>4 DEF PushInv
    <3> QED
      BY <1>1, <2>2, <2>3, <2>4, <3>2, <3>3, <3>5 DEF Installed
  <2>5. CASE ~(i # NoIntent /\ commit)
    <3>1. UNCHANGED <<mine, version>>
      BY <1>1, <2>5
    <3>2. \/ i = NoIntent \/ i.epoch < o.epoch \/ o.st = "ABORTED"
          \/ o.st = "COMMITTED" /\ ~Found(k, o.epoch, o.ts)
      BY <1>2, <1>5, <2>5, SMT, Z3 DEF Found, Finalized
    <3>3. ServerTypeOK' /\ PushInv'
      BY <1>1, <1>3, <2>2, <2>3, <3>1 DEF ServerTypeOK, PushInv
    <3> QED
      BY <1>1, <2>2, <2>3, <3>1, <3>2, <3>3 DEF Removed
  <2> QED
    BY <2>4, <2>5
<1> QED
  BY <1>4, <1>5

LEMMA GCKeeps ==
  ASSUME ServerTypeOK, PushInv, GCTxnRecord
  PROVE  ServerTypeOK' /\ PushInv'
<1>1. /\ Finalized(record.st) /\ record' = NoRecord /\ cleaned' = {}
      /\ UNCHANGED <<tombstone, pushMark, intent, version, tscache, mine, seen, outcomes, recovery>>
  BY DEF GCTxnRecord
<1>2. ServerTypeOK'
  BY <1>1, NoRecordFacts DEF ServerTypeOK
<1> QED
  BY <1>1, <1>2, NoRecordFacts DEF PushInv, Finalized

\* A recovery that probes, a read, a commit of somebody else: nothing but the
\* timestamp cache, the recoveries and other transactions' values change.
Aside ==
  UNCHANGED <<record, tombstone, pushMark, intent, mine, seen, outcomes, cleaned>>

LEMMA QueriedCacheFacts ==
  ASSUME ServerTypeOK, NEW k \in Key, NEW e, NEW ts \in Nat
  PROVE  /\ QueriedCache(k, e, ts) \in [Key -> Nat]
         /\ \A j \in Key : tscache[j] <= QueriedCache(k, e, ts)[j]
         /\ ~Found(k, e, ts) => ts <= QueriedCache(k, e, ts)[k]
<1>1. tscache \in [Key -> Nat]
  BY DEF ServerTypeOK
<1> QED
  BY <1>1, SMT, Z3 DEF QueriedCache, Max2

LEMMA AsideKeeps ==
  ASSUME ServerTypeOK, PushInv,
         \/ \E k \in Key, ts \in TS : BumpTSCache(k, ts) \/ ForeignCommit(k, ts)
         \/ \E r \in Recoverer : ProbeTxn(r)
         \/ \E r \in Recoverer, k \in Key : ProbeIntent(r, k)
         \/ \E r \in Recoverer, m \in seen, type \in {"abort", "timestamp"}, to \in TS :
              StartRecovery(r, m, type, to)
  PROVE  /\ ServerTypeOK' /\ PushInv' /\ Aside
         /\ \A k \in Key : tscache[k] <= tscache'[k]
<1> USE DEF Aside
<1>1. ASSUME NEW k \in Key, NEW ts \in TS, BumpTSCache(k, ts) \/ ForeignCommit(k, ts)
      PROVE  ServerTypeOK' /\ Aside /\ \A j \in Key : tscache[j] <= tscache'[j]
  BY <1>1, MaxTSAssumption, SMT, Z3 DEF BumpTSCache, ForeignCommit, ServerTypeOK, TS
<1>2. ASSUME NEW r \in Recoverer, ProbeTxn(r)
      PROVE  ServerTypeOK' /\ Aside /\ \A j \in Key : tscache[j] <= tscache'[j]
  <2>1. PICK c \in BOOLEAN :
          recovery' = [recovery EXCEPT ![r] = [recovery[r] EXCEPT !.queried = TRUE, !.changed = c]]
    BY <1>2 DEF ProbeTxn
  <2>2. [recovery[r] EXCEPT !.queried = TRUE, !.changed = c] \in Recovery
    BY DEF ServerTypeOK, Recovery
  <2>3. Aside /\ UNCHANGED <<version, tscache>>
    BY <1>2 DEF ProbeTxn
  <2>4. ServerTypeOK'
    BY <2>1, <2>2, <2>3 DEF ServerTypeOK
  <2> QED
    BY <2>3, <2>4, SMT, Z3 DEF ServerTypeOK
<1>3. ASSUME NEW r \in Recoverer, NEW k \in Key, ProbeIntent(r, k)
      PROVE  ServerTypeOK' /\ Aside /\ \A j \in Key : tscache[j] <= tscache'[j]
  <2> DEFINE v == recovery[r]
             w == [v EXCEPT !.todo = @ \ {k}, !.missed = @ \/ ~Found(k, v.epoch, v.ts)]
  <2>1. recovery' = [recovery EXCEPT ![r] = w] /\ tscache' = QueriedCache(k, v.epoch, v.ts)
    BY <1>3 DEF ProbeIntent
  <2>2. w \in Recovery /\ v.ts \in Nat
    BY DEF ServerTypeOK, Recovery
  <2>3. Aside /\ UNCHANGED version
    BY <1>3 DEF ProbeIntent
  <2> HIDE DEF w
  <2>4. tscache' \in [Key -> Nat] /\ \A j \in Key : tscache[j] <= tscache'[j]
    BY <2>1, <2>2, QueriedCacheFacts
  <2>5. ServerTypeOK'
    BY <2>1, <2>2, <2>3, <2>4 DEF ServerTypeOK
  <2> QED
    BY <2>3, <2>4, <2>5
<1>4. ASSUME NEW r \in Recoverer, NEW m \in seen, NEW type \in {"abort", "timestamp"},
             NEW to \in TS, StartRecovery(r, m, type, to)
      PROVE  ServerTypeOK' /\ Aside /\ \A j \in Key : tscache[j] <= tscache'[j]
  <2> DEFINE w == [Idle EXCEPT !.pc = "probe", !.epoch = record.epoch, !.ts = record.ts,
                               !.todo = record.writes]
  <2>1. recovery' = [recovery EXCEPT ![r] = w]
    BY <1>4 DEF StartRecovery
  <2>2. w \in Recovery
    BY DEF ServerTypeOK, Recovery, Record, Idle
  <2>3. Aside /\ UNCHANGED <<version, tscache>>
    BY <1>4 DEF StartRecovery
  <2>4. ServerTypeOK'
    BY <2>1, <2>2, <2>3 DEF ServerTypeOK
  <2> QED
    BY <2>3, <2>4, SMT, Z3 DEF ServerTypeOK
<1>5. ServerTypeOK' /\ Aside /\ \A j \in Key : tscache[j] <= tscache'[j]
  BY <1>1, <1>2, <1>3, <1>4
<1>6. PushInv'
  BY <1>5 DEF PushInv
<1> QED
  BY <1>5, <1>6

LEMMA LeaseKeeps ==
  ASSUME ServerTypeOK, PushInv, RecordLeaseChange
  PROVE  ServerTypeOK' /\ PushInv'
BY DEF RecordLeaseChange, ServerTypeOK, PushInv

-----------------------------------------------------------------------------
(***************************************************************************)
(* The coordinator keeps its types.                                        *)
(***************************************************************************)

LEMMA RequestTypes ==
  ASSUME TypeOK
  PROVE  /\ \A k \in Key : \A rts, wts \in Nat : PutRequest(k, rts, wts) \in PutReq
         /\ CommitRequest \in EndReq /\ ExplicitCommit \in EndReq /\ Rollback \in EndReq
         /\ \A k \in Key : [Rollback EXCEPT !.locks = @ \cup {k}] \in EndReq
<1>1. /\ co.epoch \in Nat /\ co.rts \in Nat /\ co.wts \in Nat /\ co.hrts \in Nat /\ co.hwts \in Nat
      /\ co.staged \in Nat /\ co.fwd \in BOOLEAN /\ co.keys \subseteq Key /\ co.old \subseteq Key
      /\ co.piped \subseteq Key /\ co.batch \subseteq Key
  BY DEF TypeOK, Coord
<1>2. InFlight \subseteq Key
  BY <1>1 DEF InFlight
<1>3. \A k \in Key : \A rts, wts \in Nat : PutRequest(k, rts, wts) \in PutReq
  BY <1>1 DEF PutRequest, PutReq
<1>4. CommitRequest \in EndReq
  BY <1>1, <1>2 DEF CommitRequest, EndReq
<1>5. ExplicitCommit \in EndReq
  BY <1>1 DEF ExplicitCommit, EndReq
<1>6. Rollback \in EndReq
  BY <1>1 DEF Rollback, EndReq
<1>7. ASSUME NEW k \in Key PROVE [Rollback EXCEPT !.locks = @ \cup {k}] \in EndReq
  BY <1>6 DEF EndReq
<1> QED
  BY <1>3, <1>4, <1>5, <1>6, <1>7

LEMMA NextEpochType ==
  ASSUME NEW c \in Coord
  PROVE  NextEpoch(c) \in Coord
<1>1. c.epoch + 1 \in Nat /\ c.wts \in Nat /\ c.old \cup c.keys \in SUBSET Key
  BY SMT, Z3 DEF Coord
<1> QED
  BY <1>1 DEF NextEpoch, Coord, Error

LEMMA DoneType ==
  ASSUME NEW c \in Coord, NEW told \in Told
  PROVE  Done(c, told) \in Coord
BY DEF Done, Coord

LEMMA PrepareType ==
  ASSUME NEW c \in Coord
  PROVE  Prepare(c) \in Coord
<1>1. PICK both \in BOOLEAN : both = (c.par /\ c.epoch = 0)
  BY DEF Coord
<1>2. PICK pend \in SUBSET Req :
        pend = Puts(c.batch) \cup Queries(c.piped) \cup (IF c.par /\ c.epoch = 0 THEN {End} ELSE {})
  BY DEF Coord, Req, Puts, Queries
<1> DEFINE d == [c EXCEPT !.pc = "commit", !.hrts = c.rts, !.hwts = c.wts, !.staged = 0,
                          !.err = "none"]
<1>3. d \in Coord
  BY DEF Coord, Error
<1>4. Prepare(c) = [d EXCEPT !.qerr = "none", !.amb = {}, !.ended = both, !.pend = pend]
  BY <1>1, <1>2 DEF Prepare
<1> HIDE DEF d
<1> QED
  BY <1>3, <1>4 DEF Coord, Error

LEMMA ErrorTypes ==
  /\ \A e, f \in Error : MergeErr(e, f) \in Error
  /\ \A x : \A e \in Error : ErrOf(x, e) \in Error
  /\ MissingIntent \in Error
BY DEF Error, MergeErr, ErrOf, MissingIntent

LEMMA WriteKeeps ==
  ASSUME TypeOK, PushInv, NEW k \in Key, Write(k)
  PROVE  TypeOK' /\ PushInv'
<1> DEFINE q == PutRequest(k, co.rts, co.wts)
           wts == Max2(co.wts, PutReply(q))
           c == [co EXCEPT !.pc = "run", !.keys = @ \cup {k}, !.piped = @ \cup {k},
                           !.batch = {}, !.wts = wts, !.rts = PutReplyRTS(q)]
<1>1. /\ EvalPut(q) /\ UNCHANGED net
      /\ \/ co' = (IF TooOld(q) THEN [c EXCEPT !.rts = wts] ELSE c)
         \/ co' = NextEpoch(c)
  BY DEF Write
<1>2. q \in PutReq /\ co.wts \in Nat /\ co.rts \in Nat
  BY RequestTypes DEF TypeOK, Coord
<1> HIDE DEF q
<1>3. wts \in Nat /\ PutReplyRTS(q) \in Nat
  BY <1>2, PutFacts DEF TypeOK, Max2, PutReplyRTS
<1> HIDE DEF wts
<1>4. c \in Coord
  BY <1>3 DEF TypeOK, Coord
<1>5. [c EXCEPT !.rts = wts] \in Coord
  <2> HIDE DEF c
  <2> QED
    BY <1>3, <1>4 DEF Coord
<1> HIDE DEF c
<1>6. co' \in Coord
  BY <1>1, <1>4, <1>5, NextEpochType
<1> QED
  BY <1>1, <1>2, <1>6, EvalPutFacts DEF TypeOK, PushInv

LEMMA SendPutKeeps ==
  ASSUME TypeOK, PushInv, NEW k \in Key, SendPut(k)
  PROVE  TypeOK' /\ PushInv'
<1> DEFINE x == <<"put", k>>
           q == PutRequest(k, co.hrts, co.hwts)
           e == IF PutRefused(q) THEN "error" ELSE "none"
<1>1. /\ EvalPut(q) /\ UNCHANGED net
      /\ co' = [co EXCEPT !.pend = @ \ {x}, !.wts = Max2(@, PutReply(q)),
                          !.rts = PutReplyRTS(q), !.err = MergeErr(@, ErrOf(x, e))]
  BY DEF SendPut
<1>2. q \in PutReq /\ co.wts \in Nat /\ co.rts \in Nat /\ co.err \in Error
  BY RequestTypes DEF TypeOK, Coord
<1>3. e \in Error
  BY DEF Error
<1> HIDE DEF q, x, e
<1>4. /\ Max2(co.wts, PutReply(q)) \in Nat /\ PutReplyRTS(q) \in Nat
      /\ MergeErr(co.err, ErrOf(x, e)) \in Error
  BY <1>2, <1>3, PutFacts, ErrorTypes DEF TypeOK, Max2, PutReplyRTS
<1>5. co' \in Coord
  BY <1>1, <1>4 DEF TypeOK, Coord
<1> QED
  BY <1>1, <1>2, <1>5, EvalPutFacts DEF TypeOK, PushInv

LEMMA SendQueryKeeps ==
  ASSUME TypeOK, PushInv, NEW k \in Key, SendQuery(k)
  PROVE  TypeOK' /\ PushInv'
<1> DEFINE x == <<"query", k>>
           i == intent[k]
           pushed == i.epoch = co.epoch /\ i.ts > co.hwts
           e == IF Found(k, co.epoch, co.hwts) THEN "none"
                ELSE IF pushed THEN "retry" ELSE "missing"
<1>1. /\ tscache' = QueriedCache(k, co.epoch, co.hwts)
      /\ UNCHANGED <<record, tombstone, pushMark, intent, version, mine, seen, outcomes,
                     cleaned, recovery, net>>
      /\ co' = [co EXCEPT !.pend = @ \ {x}, !.wts = IF pushed THEN Max2(@, i.ts) ELSE @,
                          !.qerr = MergeErr(@, ErrOf(x, e))]
  BY DEF SendQuery
<1>2. /\ co.wts \in Nat /\ co.hwts \in Nat /\ co.qerr \in Error /\ i.ts \in Nat
  BY NoIntentFacts DEF TypeOK, ServerTypeOK, Coord
<1>3. e \in Error
  BY DEF Error
<1>4. PICK w \in Nat : w = IF pushed THEN Max2(co.wts, i.ts) ELSE co.wts
  BY <1>2 DEF Max2
<1> HIDE DEF x, e
<1>5. MergeErr(co.qerr, ErrOf(x, e)) \in Error
  BY <1>2, <1>3, ErrorTypes
<1>6. co' = [co EXCEPT !.pend = co.pend \ {x}, !.wts = w, !.qerr = MergeErr(co.qerr, ErrOf(x, e))]
  BY <1>1, <1>4 DEF TypeOK, Coord
<1>7. co' \in Coord
  BY <1>5, <1>6 DEF TypeOK, Coord
<1>8. tscache' \in [Key -> Nat]
  BY <1>1, <1>2, QueriedCacheFacts DEF TypeOK
<1> QED
  BY <1>1, <1>7, <1>8 DEF TypeOK, ServerTypeOK, PushInv

LEMMA SendEndKeeps ==
  ASSUME TypeOK, PushInv, SendEnd
  PROVE  TypeOK' /\ PushInv'
<1> DEFINE q == CommitRequest
           reply == EndTxnReply(q)
           ok == reply \in {"ok", "staged"}
           ts == MergedTS(q)
<1>1. /\ EndTxn(q) /\ UNCHANGED net
      /\ co' = [co EXCEPT !.pend = @ \ {End},
                          !.staged = IF ok THEN ts ELSE @,
                          !.wts = IF ok \/ reply = "retry" THEN Max2(@, ts) ELSE @,
                          !.rts = IF ok /\ co.fwd THEN Max2(@, ts) ELSE @,
                          !.err = MergeErr(@, ErrOf(End, IF ok THEN "none" ELSE reply))]
  BY DEF SendEnd
<1>2. q \in EndReq
  BY RequestTypes
<1>3. /\ ServerTypeOK /\ co.wts \in Nat /\ co.rts \in Nat /\ co.staged \in Nat /\ co.err \in Error
      /\ co \in Coord
  BY DEF TypeOK, Coord
<1> HIDE DEF q
<1>4. ts \in Nat
  BY <1>2, <1>3, MergedFacts
<1>5. reply \in {"staged", "ok", "aborted", "committed", "error", "retry"}
  BY DEF EndTxnReply
<1> HIDE DEF reply, ts
<1>6. PICK st \in Nat : st = IF ok THEN ts ELSE co.staged
  BY <1>3, <1>4
<1>7. PICK w \in Nat : w = IF ok \/ reply = "retry" THEN Max2(co.wts, ts) ELSE co.wts
  BY <1>3, <1>4 DEF Max2
<1>8. PICK rt \in Nat : rt = IF ok /\ co.fwd THEN Max2(co.rts, ts) ELSE co.rts
  BY <1>3, <1>4 DEF Max2
<1>9. PICK e \in Error : e = MergeErr(co.err, ErrOf(End, IF ok THEN "none" ELSE reply))
  <2>1. (IF ok THEN "none" ELSE reply) \in Error
    BY <1>5 DEF Error
  <2> QED
    BY <1>3, <2>1, ErrorTypes
<1>10. co' = [co EXCEPT !.pend = co.pend \ {End}, !.staged = st, !.wts = w, !.rts = rt, !.err = e]
  BY <1>1, <1>3, <1>6, <1>7, <1>8, <1>9 DEF Coord
<1>11. co' \in Coord
  BY <1>3, <1>10 DEF Coord
<1>12. ServerTypeOK' /\ PushInv'
  BY <1>1, <1>2, <1>3, EndTxnKeeps
<1> QED
  BY <1>1, <1>11, <1>12 DEF TypeOK

LEMMA DeliverKeeps ==
  ASSUME TypeOK, PushInv, NEW q \in net, Deliver(q)
  PROVE  TypeOK' /\ PushInv'
<1>1. UNCHANGED co /\ net' = net \ {q} /\ q \in PutReq \cup EndReq /\ ServerTypeOK
  BY DEF Deliver, TypeOK
<1>2. CASE q \in PutReq
  <2>1. EvalPut(q)
    BY <1>2 DEF Deliver, PutReq
  <2> QED
    BY <1>1, <1>2, <2>1, EvalPutFacts DEF TypeOK, PushInv
<1>3. CASE q \in EndReq
  <2>1. EndTxn(q)
    BY <1>3 DEF Deliver, EndReq
  <2> QED
    BY <1>1, <1>3, <2>1, EndTxnKeeps DEF TypeOK
<1> QED
  BY <1>1, <1>2, <1>3

\* The steps of the coordinator that leave the server alone.
CoordOnly ==
  \/ \E k \in Key : WriteFailed(k) \/ WriteLost(k)
  \/ ClientRollback
  \/ \E b \in SUBSET Key, par \in BOOLEAN : StartCommit(b, par)
  \/ SendEndTxn
  \/ \E x \in co.pend : Lose(x)
  \/ DetectMissing
  \/ Acknowledge \/ Refresh \/ Restart \/ Fail

LEMMA CoordOnlyKeeps ==
  ASSUME TypeOK, PushInv, CoordOnly
  PROVE  TypeOK' /\ PushInv' /\ UNCHANGED server
<1>1. /\ ServerTypeOK /\ co \in Coord /\ co.rts \in Nat /\ co.wts \in Nat /\ co.hrts \in Nat
      /\ co.hwts \in Nat /\ co.err \in Error /\ co.qerr \in Error /\ net \subseteq PutReq \cup EndReq
      /\ co.pend \subseteq Req
  BY DEF TypeOK, Coord
<1>2. UNCHANGED server
  BY DEF CoordOnly, WriteFailed, WriteLost, ClientRollback, StartCommit, SendEndTxn, Lose,
         DetectMissing, Acknowledge, Refresh, Restart, Fail
<1>3. ServerTypeOK' /\ PushInv'
  BY <1>1, <1>2 DEF server, ServerTypeOK, PushInv
<1>4. co' \in Coord /\ net' \subseteq PutReq \cup EndReq
  <2>1. ASSUME NEW k \in Key, WriteFailed(k)
        PROVE  co' \in Coord /\ net' \subseteq PutReq \cup EndReq
    <3> DEFINE q == PutRequest(k, co.rts, co.wts)
    <3>1. q \in PutReq
      BY <1>1, RequestTypes
    <3>2. UNCHANGED net /\ co' = [co EXCEPT !.keys = @ \cup {k}, !.piped = @ \cup {k},
                                            !.wts = Max2(@, PutReply(q))]
      BY <2>1 DEF WriteFailed
    <3> HIDE DEF q
    <3>3. Max2(co.wts, PutReply(q)) \in Nat
      BY <1>1, <3>1, PutFacts DEF Max2
    <3> QED
      BY <1>1, <3>2, <3>3 DEF Coord
  <2>2. ASSUME NEW k \in Key, WriteLost(k)
        PROVE  co' \in Coord /\ net' \subseteq PutReq \cup EndReq
    <3>1. /\ PutRequest(k, co.rts, co.wts) \in PutReq
          /\ [Rollback EXCEPT !.locks = @ \cup {k}] \in EndReq
      BY <1>1, RequestTypes
    <3>2. [co EXCEPT !.keys = @ \cup {k}] \in Coord /\ [co EXCEPT !.pc = "resend", !.batch = {k}] \in Coord
      BY <1>1 DEF Coord
    <3>3. Done([co EXCEPT !.keys = @ \cup {k}], "error") \in Coord
      BY <3>2, DoneType DEF Told
    <3> QED
      BY <1>1, <2>2, <3>1, <3>2, <3>3 DEF WriteLost
  <2>3. CASE ClientRollback
    <3>1. Rollback \in EndReq /\ Done(co, "rolledback") \in Coord
      BY <1>1, RequestTypes, DoneType DEF Told
    <3> QED
      BY <1>1, <2>3, <3>1 DEF ClientRollback
  <2>4. ASSUME NEW b \in SUBSET Key, NEW par \in BOOLEAN, StartCommit(b, par)
        PROVE  co' \in Coord /\ net' \subseteq PutReq \cup EndReq
    <3>1. [co EXCEPT !.keys = co.keys \cup b, !.batch = b, !.par = par] \in Coord
      BY <1>1 DEF Coord
    <3> QED
      BY <1>1, <2>4, <3>1, PrepareType DEF StartCommit
  <2>5. CASE SendEndTxn
    <3>1. {End} \subseteq Req
      BY DEF Req
    <3>2. UNCHANGED net /\ co' = [co EXCEPT !.ended = TRUE, !.pend = {End}, !.hrts = co.rts,
                                            !.hwts = co.wts]
      BY <2>5 DEF SendEndTxn
    <3> QED
      BY <1>1, <3>1, <3>2 DEF Coord
  <2>6. ASSUME NEW x \in co.pend, Lose(x)
        PROVE  co' \in Coord /\ net' \subseteq PutReq \cup EndReq
    <3> DEFINE withCommit == Concurrent \/ x = End
               gaveUp == IF withCommit THEN "ambiguous" ELSE "error"
               copy == CASE x = End -> {CommitRequest}
                         [] x[1] = "put" -> {PutRequest(x[2], co.hrts, co.hwts)}
                         [] OTHER -> {}
    <3>1. /\ net' = net \cup copy
          /\ \/ co' = [co EXCEPT !.amb = IF withCommit THEN @ \cup {x} ELSE @]
             \/ co' = [co EXCEPT !.pend = @ \ {x}, !.err = MergeErr(@, gaveUp)]
      BY <2>6 DEF Lose
    <3>2. MergeErr(co.err, gaveUp) \in Error
      <4>1. gaveUp \in Error
        BY DEF Error
      <4> QED
        BY <1>1, <4>1, ErrorTypes
    <3>3. x \in Puts(Key) \cup Queries(Key) \cup {End}
      BY <1>1 DEF Req
    <3>4. copy \subseteq PutReq \cup EndReq
      <4>1. CASE x = End
        <5>1. copy = {CommitRequest}
          BY <4>1 DEF End
        <5> QED
          BY <5>1, RequestTypes
      <4>2. ASSUME NEW j \in Key, x = <<"put", j>> PROVE copy \subseteq PutReq \cup EndReq
        <5>1. x # End /\ x[1] = "put" /\ x[2] = j
          BY <4>2 DEF End
        <5>2. copy = {PutRequest(j, co.hrts, co.hwts)}
          BY <5>1
        <5> QED
          BY <1>1, <5>2, RequestTypes, SMT, Z3
      <4>3. ASSUME NEW j \in Key, x = <<"query", j>> PROVE copy \subseteq PutReq \cup EndReq
        <5>1. x # End /\ x[1] # "put"
          BY <4>3 DEF End
        <5> QED
          BY <5>1
      <4> QED
        BY <3>3, <4>1, <4>2, <4>3 DEF Puts, Queries
    <3> HIDE DEF copy, gaveUp
    <3>5. CASE co' = [co EXCEPT !.amb = IF withCommit THEN @ \cup {x} ELSE @]
      <4>1. PICK a \in SUBSET Req : a = IF withCommit THEN co.amb \cup {x} ELSE co.amb
        BY <1>1 DEF Coord
      <4>2. co' = [co EXCEPT !.amb = a]
        BY <1>1, <3>5, <4>1 DEF Coord
      <4> QED
        BY <1>1, <3>1, <3>4, <4>2 DEF Coord
    <3>6. CASE co' = [co EXCEPT !.pend = @ \ {x}, !.err = MergeErr(@, gaveUp)]
      BY <1>1, <3>1, <3>2, <3>4, <3>6 DEF Coord
    <3> QED
      BY <3>1, <3>5, <3>6
  <2>7. CASE DetectMissing
    BY <1>1, <2>7, ErrorTypes DEF DetectMissing, Coord
  <2>8. CASE Acknowledge
    <3>1. ExplicitCommit \in EndReq /\ Done(co, "committed") \in Coord
      BY <1>1, RequestTypes, DoneType DEF Told
    <3> QED
      BY <1>1, <2>8, <3>1 DEF Acknowledge
  <2>9. CASE Refresh
    <3>1. [co EXCEPT !.rts = co.wts, !.par = FALSE] \in Coord
      BY <1>1 DEF Coord
    <3> QED
      BY <1>1, <2>9, <3>1, PrepareType DEF Refresh
  <2>10. CASE Restart
    BY <1>1, <2>10, NextEpochType DEF Restart
  <2>11. CASE Fail
    <3>1. Rollback \in EndReq /\ \A told \in Told : Done(co, told) \in Coord
      BY <1>1, RequestTypes, DoneType
    <3>2. \E told \in Told : co' = Done(co, told)
      BY <2>11 DEF Fail, Told
    <3> QED
      BY <1>1, <2>11, <3>1, <3>2 DEF Fail
  <2> QED
    BY <2>1, <2>2, <2>3, <2>4, <2>5, <2>6, <2>7, <2>8, <2>9, <2>10, <2>11 DEF CoordOnly
<1> QED
  BY <1>2, <1>3, <1>4 DEF TypeOK

\* All steps, sorted by what they touch.
LEMMA NextCases ==
  ASSUME TypeOK, Next
  PROVE  \/ CoordOnly
         \/ \E k \in Key : Write(k) \/ SendPut(k) \/ SendQuery(k)
         \/ SendEnd
         \/ \E q \in net : Deliver(q)
         \/ /\ UNCHANGED <<co, net>>
            /\ \/ HeartbeatTxn(co.epoch, co.wts)
               \/ \E m \in seen, type \in {"abort", "timestamp"}, to \in TS : PushTxn(m, type, to)
               \/ \E r \in Recoverer : RecoverTxn(r)
               \/ \E k \in Key, o \in outcomes : ResolveIntent(k, o)
               \/ GCTxnRecord
               \/ RecordLeaseChange
               \/ \E k \in Key, ts \in TS : BumpTSCache(k, ts) \/ ForeignCommit(k, ts)
               \/ \E r \in Recoverer : ProbeTxn(r)
               \/ \E r \in Recoverer, k \in Key : ProbeIntent(r, k)
               \/ \E r \in Recoverer, m \in seen, type \in {"abort", "timestamp"}, to \in TS :
                    StartRecovery(r, m, type, to)
<1>1. 0 \in TS
  BY MaxTSAssumption, SMT, Z3 DEF TS
<1>2. CASE Coordinator
  BY <1>2 DEF Coordinator, CoordOnly, Heartbeat
<1>3. CASE Others
  BY <1>1, <1>3 DEF Others
<1> QED
  BY <1>2, <1>3 DEF Next

LEMMA NextKeeps ==
  ASSUME TypeOK, PushInv, [Next]_vars
  PROVE  TypeOK' /\ PushInv'
<1>1. CASE UNCHANGED vars
  BY <1>1 DEF vars, TypeOK, ServerTypeOK, PushInv
<1>2. CASE Next
  <2>1. ServerTypeOK /\ co \in Coord /\ net \subseteq PutReq \cup EndReq /\ seen \subseteq Written
        /\ co.epoch \in Nat /\ co.wts \in Nat /\ TS \subseteq Nat
    BY MaxTSAssumption, SMT, Z3 DEF TypeOK, ServerTypeOK, Coord, TS
  <2>2. ASSUME UNCHANGED <<co, net>>, ServerTypeOK' PROVE TypeOK'
    BY <2>1, <2>2 DEF TypeOK
  <2>3. CASE HeartbeatTxn(co.epoch, co.wts) /\ UNCHANGED <<co, net>>
    BY <2>1, <2>2, <2>3, HeartbeatKeeps
  <2>4. ASSUME NEW m \in seen, NEW type \in {"abort", "timestamp"}, NEW to \in TS,
               PushTxn(m, type, to), UNCHANGED <<co, net>>
        PROVE  TypeOK' /\ PushInv'
    <3>1. m \in Written /\ to \in Nat
      BY <2>1
    <3> QED
      BY <2>1, <2>2, <2>4, <3>1, PushTxnKeeps
  <2>5. CASE (\E r \in Recoverer : RecoverTxn(r)) /\ UNCHANGED <<co, net>>
    BY <2>1, <2>2, <2>5, RecoverTxnKeeps
  <2>6. CASE (\E k \in Key, o \in outcomes : ResolveIntent(k, o)) /\ UNCHANGED <<co, net>>
    BY <2>1, <2>2, <2>6, ResolveIntentKeeps
  <2>7. CASE (GCTxnRecord \/ RecordLeaseChange) /\ UNCHANGED <<co, net>>
    BY <2>1, <2>2, <2>7, GCKeeps, LeaseKeeps
  <2> QED
    BY <1>2, <2>1, <2>2, <2>3, <2>4, <2>5, <2>6, <2>7, NextCases, CoordOnlyKeeps, WriteKeeps,
       SendPutKeeps, SendQueryKeeps, SendEndKeeps, DeliverKeeps, AsideKeeps
<1> QED
  BY <1>1, <1>2

LEMMA InitKeeps ==
  ASSUME Init
  PROVE  TypeOK /\ PushInv
<1>1. ServerTypeOK /\ PushInv
  <2>1. ServerInit
    BY DEF Init
  <2>2. Idle \in Recovery
    BY DEF Idle, Recovery
  <2> QED
    BY <2>1, <2>2, NoRecordFacts DEF ServerInit, ServerTypeOK, PushInv, Finalized
<1>2. PICK s \in Scenarios :
        co = [pc |-> "run", epoch |-> 0, rts |-> 1, wts |-> 1, fwd |-> s.fwd,
              keys |-> {}, old |-> {}, piped |-> {}, batch |-> {}, par |-> FALSE,
              ended |-> FALSE, hrts |-> 0, hwts |-> 0, pend |-> {}, amb |-> {},
              err |-> "none", qerr |-> "none", staged |-> 0, told |-> "none"]
  BY DEF Init
<1>3. s.fwd \in BOOLEAN
  BY ScenariosAssumption
<1>4. co \in Coord
  BY <1>2, <1>3 DEF Coord, Error, Told
<1> QED
  BY <1>1, <1>4 DEF Init, TypeOK

\* PushTxn's promise holds for every transaction, with lost, resent and delayed
\* requests, rollbacks after ambiguous results, and whatever else may happen.
THEOREM PushesAreRespected == Spec => []PushRespected
<1>1. Init => TypeOK /\ PushInv
  BY InitKeeps
<1>2. TypeOK /\ PushInv /\ [Next]_vars => (TypeOK /\ PushInv)'
  BY NextKeeps
<1>3. TypeOK /\ PushInv => PushRespected
  <2> SUFFICES ASSUME TypeOK, PushInv, NEW o \in outcomes, NEW k \in Key, o.st # "ABORTED",
                      mine[k] # NoIntent
               PROVE  mine[k].ts >= o.ts
    BY DEF PushRespected
  <2>1. PICK p \in outcomes : p.st = "COMMITTED" /\ p.ts = mine[k].ts
    BY DEF PushInv
  <2>2. o.ts <= p.ts
    BY <2>1 DEF PushInv
  <2>3. o.ts \in Nat /\ p.ts \in Nat
    BY DEF TypeOK, ServerTypeOK, Reply
  <2> QED
    BY <2>1, <2>2, <2>3
<1> QED
  BY <1>1, <1>2, <1>3, PTL DEF Spec

\* The hypothesis of the theorems on atomicity: DistSender does not resend an RPC
\* that broke, and every transaction has reads that a new timestamp must refresh.
SentOnce == ~ResendLost /\ \A s \in Scenarios : ~s.fwd

-----------------------------------------------------------------------------
(***************************************************************************)
(* The inductive invariant.                                                *)
(***************************************************************************)

\* The puts that are still to be evaluated: of the current batch, or copies.
OnWay ==
  {PutRequest(k, co.hrts, co.hwts) : k \in {j \in Key : <<"put", j>> \in co.pend}}
    \cup {q \in net : q.type = "put"}

\* The write that a commit of epoch e at ts needs on k is there (I: the intents),
\* or is on its way (W) and the timestamp cache (T) still lets it in.
Possible(I, T, W, k, e, ts) ==
  \/ I[k].epoch = e /\ I[k].ts <= ts
  \/ T[k] < ts /\ \E q \in W : q.key = k /\ q.epoch = e /\ q.wts <= ts

Alive(k, e, ts) == Possible(intent, tscache, OnWay, k, e, ts)

\* The commit that the record stages, or the coordinator's batch asks for, is off.
Dead == \E k \in record.writes : ~Alive(k, record.epoch, record.ts)
DeadBatch == \E k \in co.keys : ~Alive(k, co.epoch, co.hwts)

Committed ==
  \/ record.st = "COMMITTED"
  \/ \E k \in Key : mine[k] # NoIntent
  \/ \E o \in outcomes : o.st = "COMMITTED"

\* The record is finalized, or can no longer be created, and not by a commit.
NeverCommits == ~NotFinal /\ ~Committed

\* EndTxn of the current batch has not been evaluated.
Unevaluated ==
  \/ ~co.ended
  \/ End \in co.pend
  \/ co.told # "committed" /\ \E q \in net : q.type = "end" /\ q.commit

\* The coordinator has an error that ends the transaction.
Final(e) == e \notin {"none", "retry"}
Doomed == co.pc = "done" \/ (co.pc = "commit" /\ Final(co.err))

\* A coordinator c is past the parallel commit of epoch e at ts, or in it.
Superseded(c, e, ts) == e < c.epoch \/ (e = c.epoch /\ c.pc # "run" /\ ~c.par /\ ts < c.hwts)
Current(c, e, ts) ==
  /\ e = c.epoch /\ ts = c.hwts /\ c.hrts = c.hwts
  /\ c.pc # "run" /\ c.par /\ c.err # "retry"

CoInv ==
  /\ ~co.fwd /\ co.amb = {} /\ co.pc # "resend"
  /\ 0 < co.rts /\ co.rts <= co.wts /\ co.hrts <= co.hwts /\ co.hwts <= co.wts
  /\ co.pc # "commit" => co.pend = {}
  /\ co.pc = "run" =>
       /\ co.keys = co.piped /\ ~co.par /\ ~co.ended /\ co.hwts = 0 /\ net = {}
       /\ co.err = "none" /\ co.qerr = "none" /\ co.staged = 0
  /\ co.pc = "commit" =>
       /\ co.keys = co.piped \cup co.batch /\ co.piped \cap co.batch = {} /\ 0 < co.hwts
       /\ co.pend \subseteq Puts(co.batch) \cup Queries(co.piped) \cup {End}
       /\ End \in co.pend => co.ended
       /\ co.err \in {"none", "retry", "aborted", "ambiguous", "error"}
       /\ co.qerr \in {"none", "retry", "missing", "absent", "ambiguous"}
       /\ co.ended /\ End \notin co.pend /\ co.err = "none" => co.staged = co.hwts
  /\ Concurrent => co.ended
  /\ co.ended /\ ~Concurrent => co.pend \subseteq {End} /\ co.qerr = "none"
  /\ co.ended => co.keys = co.piped \cup co.batch
  /\ co.pc = "commit" => co.keys \cup co.old # {}
  /\ co.ended => co.keys \cup co.old # {}
  /\ co.par => co.keys # {}
  /\ co.pc = "done" <=> co.told # "none"
  /\ co.staged # 0 => ~Unevaluated /\ co.staged = co.hwts /\ co.hrts = co.hwts
  /\ co.told = "committed" => co.staged = co.hwts /\ co.ended /\ 0 < co.hwts
  /\ co.told # "unexpected"
  /\ co.err = "retry" => ~Unevaluated
  /\ co.ended /\ ~Concurrent /\ Unevaluated =>
       co.wts = co.hwts /\ co.err \in {"none", "ambiguous"}
  /\ (co.pc = "commit" /\ co.err = "error") \/ co.told \in {"error", "rolledback"} => ~co.ended

NetInv ==
  /\ net # {} => Doomed
  /\ \A q \in net :
       /\ q.epoch = co.epoch
       /\ \/ /\ q.type = "put" /\ q.key \in co.keys /\ <<"put", q.key>> \notin co.pend
             /\ co.ended => Concurrent
          \/ /\ q.type = "end" /\ q.commit /\ q = CommitRequest
             /\ co.ended /\ End \notin co.pend /\ co.told # "committed"
          \/ q.type = "end" /\ q.commit /\ q = ExplicitCommit /\ co.told = "committed" /\ co.par
          \/ /\ q.type = "end" /\ ~q.commit /\ q.locks # {}
             /\ co.told \in Abstract!Failed \cup {"ambiguous"}
  /\ \A q, p \in net : q.type = "put" /\ p.type = "put" /\ q.key = p.key => q = p

\* Nothing of the transaction is newer than its epoch, and no intent later than
\* what the coordinator knows, or a push has told.
EpochInv ==
  /\ record.epoch <= co.epoch
  /\ \A o \in outcomes : o.epoch <= co.epoch
  /\ \A k \in Key : intent[k].epoch = co.epoch => k \in co.keys
  /\ \A k \in Key : intent[k] # NoIntent => intent[k] \in seen
  /\ \A m \in seen :
       /\ m.epoch <= co.epoch
       /\ \/ m.ts <= co.wts
          \/ \E o \in outcomes : o.st # "ABORTED" /\ m.ts <= o.ts
          \/ Doomed /\ IF Concurrent THEN DeadBatch ELSE ~co.ended

\* A write that was answered is there, as long as the transaction is open, and
\* one that is on its way for a parallel commit is not.
Landed ==
  /\ /\ NotFinal
     /\ \/ co.pc = "commit" /\ ~Final(co.err) /\ co.qerr = "none"
        \/ co.ended /\ ~Concurrent
     => \A k \in co.keys : \/ <<"put", k>> \in co.pend \/ <<"query", k>> \in co.pend
                           \/ intent[k].epoch = co.epoch
  /\ co.par => \A q \in OnWay : intent[q.key].epoch < co.epoch

\* What a coordinator that will not acknowledge has noticed.
NoticeInv ==
  /\ co.par /\ co.wts > co.hwts =>
       DeadBatch \/ (~Unevaluated /\ ~(record.st = "STAGING" /\ record.epoch = co.epoch))
  /\ co.par /\ co.pc = "commit" /\ co.qerr # "none" => DeadBatch
  /\ co.par /\ co.pc = "commit" /\ co.qerr = "retry" => co.wts > co.hwts
  /\ (co.pc = "commit" /\ co.err = "aborted") \/ co.told = "aborted" => ~NotFinal /\ ~Committed

\* A STAGING record is that of the current batch, or its commit is off.
StagingInv ==
  record.st = "STAGING" =>
    \/ Superseded(co, record.epoch, record.ts) /\ Dead
    \/ Current(co, record.epoch, record.ts) /\ ~Unevaluated /\ record.writes = co.keys

\* What a recovery v knows of the commit it probes, unless that is rolled back.
Informed(v) ==
  \/ Committed /\ Current(co, v.epoch, v.ts)
  \/ /\ record.st = "STAGING" /\ record.epoch = v.epoch /\ record.ts = v.ts
     /\ \A k \in record.writes \ v.todo : Found(k, v.epoch, v.ts)
  \/ v.missed
  \/ \E k \in v.todo : ~Alive(k, v.epoch, v.ts)
  \/ co.told = "ambiguous" /\ NeverCommits

\* The commit is the current one, or it is past.
Probing(v) ==
  /\ \/ Superseded(co, v.epoch, v.ts)
     \/ /\ Current(co, v.epoch, v.ts) /\ ~Unevaluated
        /\ v.todo \subseteq co.keys
        /\ v.missed => DeadBatch
  /\ Informed(v)

RecoveryInv ==
  \A r \in Recoverer : recovery[r].pc = "probe" => Probing(recovery[r])

\* What was finalized stays so, and only then intents are cleaned up.
FinalInv ==
  /\ NotFinal => ~Committed /\ \A o \in outcomes : o.st # "ABORTED"
  /\ ~Finalized(record.st) => cleaned = {}

\* A committed transaction is committed at its batch's timestamp, with all writes.
CommittedInv ==
  Committed =>
    /\ co.pc # "run" /\ ~Unevaluated /\ co.hrts = co.hwts /\ OnWay = {}
    /\ co.pc = "commit" =>
         co.err \in {"none", "ambiguous"} /\ co.qerr \in {"none", "missing", "ambiguous"}
    /\ co.par => co.wts = co.hwts
    /\ \A o \in outcomes : o.st = "COMMITTED" => o.epoch = co.epoch /\ o.ts = co.hwts
    /\ \A k \in Key : mine[k] # NoIntent =>
         /\ k \in co.keys /\ intent[k] = NoIntent
         /\ mine[k] = [epoch |-> co.epoch, ts |-> co.hwts]
    /\ \/ /\ record.st = "COMMITTED" /\ record.epoch = co.epoch /\ record.ts = co.hwts
          /\ \A k \in co.keys : mine[k] # NoIntent \/ Found(k, co.epoch, co.hwts)
          /\ co.keys \subseteq record.locks /\ record.locks # {}
          /\ \A k \in cleaned : k \in co.keys => mine[k] # NoIntent
          /\ cleaned # {} => \E o \in outcomes : o.st = "COMMITTED"
          /\ \A o \in outcomes : o.st # "ABORTED"
       \/ /\ \/ record.st = "none" /\ tombstone
             \/ record.st = "ABORTED" /\ co.told = "ambiguous"
          /\ \A k \in co.keys : mine[k] # NoIntent

\* What the coordinator was told of its EndTxn holds, or it has noticed, or will.
AckInv ==
  /\ co.staged # 0 /\ co.pc = "commit" =>
       \/ Committed
       \/ /\ co.par
          /\ \/ record.st = "STAGING" /\ record.epoch = co.epoch
             \/ co.err # "none" \/ co.qerr # "none" \/ co.wts > co.hwts
             \/ \E k \in co.keys : /\ ~Alive(k, co.epoch, co.hwts)
                                   /\ <<"put", k>> \in co.pend \/ <<"query", k>> \in co.pend
  /\ co.told = "committed" =>
       \/ Committed
       \/ /\ co.par /\ record.st = "STAGING" /\ record.epoch = co.epoch
          /\ \A k \in co.keys : Found(k, co.epoch, co.hwts)

IInv ==
  /\ TypeOK /\ PushInv /\ CoInv /\ NetInv /\ EpochInv /\ Landed /\ NoticeInv
  /\ StagingInv /\ RecoveryInv /\ FinalInv /\ CommittedInv /\ AckInv

-----------------------------------------------------------------------------
(***************************************************************************)
(* What no step makes possible again.                                      *)
(***************************************************************************)

LEMMA Fields ==
  ASSUME TypeOK
  PROVE  /\ co.epoch \in Nat /\ co.rts \in Nat /\ co.wts \in Nat /\ co.hrts \in Nat
         /\ co.hwts \in Nat /\ co.staged \in Nat /\ co.keys \subseteq Key /\ co.old \subseteq Key
         /\ co.piped \subseteq Key /\ co.batch \subseteq Key /\ co.pend \subseteq Req
         /\ co.fwd \in BOOLEAN /\ co.par \in BOOLEAN /\ co.ended \in BOOLEAN
         /\ co.err \in Error /\ co.qerr \in Error /\ co.told \in Told
         /\ co.pc \in {"run", "resend", "commit", "done"}
         /\ record.st \in Status /\ record.epoch \in Nat /\ record.ts \in Nat
         /\ record.writes \subseteq Key /\ record.locks \subseteq Key /\ tombstone \in BOOLEAN
         /\ \A k \in Key : /\ intent[k] \in Written \cup {NoIntent} /\ intent[k].epoch \in Int
                           /\ intent[k].ts \in Nat /\ tscache[k] \in Nat
                           /\ intent[k] # NoIntent => intent[k].epoch \in Nat
         /\ \A m \in seen : m \in Written /\ m.epoch \in Nat /\ m.ts \in Nat
         /\ \A o \in outcomes : o.st \in Status /\ o.epoch \in Nat /\ o.ts \in Nat
         /\ \A r \in Recoverer : /\ recovery[r].epoch \in Nat /\ recovery[r].ts \in Nat
                                 /\ recovery[r].todo \subseteq Key
<1>1. co \in Coord /\ ServerTypeOK
  BY DEF TypeOK
<1>2. \A k \in Key : intent[k] \in Written \cup {NoIntent} /\ tscache[k] \in Nat
  BY <1>1 DEF ServerTypeOK
<1>3. \A m \in seen : m \in Written /\ m.epoch \in Nat /\ m.ts \in Nat
  BY <1>1 DEF ServerTypeOK, Written
<1>4. \A o \in outcomes : o.st \in Status /\ o.epoch \in Nat /\ o.ts \in Nat
  BY <1>1 DEF ServerTypeOK, Reply
<1>5. \A r \in Recoverer : recovery[r].epoch \in Nat /\ recovery[r].ts \in Nat
                           /\ recovery[r].todo \subseteq Key
  BY <1>1 DEF ServerTypeOK, Recovery
<1>6. /\ record.st \in Status /\ record.epoch \in Nat /\ record.ts \in Nat
      /\ record.writes \subseteq Key /\ record.locks \subseteq Key /\ tombstone \in BOOLEAN
  BY <1>1 DEF ServerTypeOK, Record
<1>7. /\ co.epoch \in Nat /\ co.rts \in Nat /\ co.wts \in Nat /\ co.hrts \in Nat
      /\ co.hwts \in Nat /\ co.staged \in Nat /\ co.keys \subseteq Key /\ co.old \subseteq Key
      /\ co.piped \subseteq Key /\ co.batch \subseteq Key /\ co.pend \subseteq Req
      /\ co.fwd \in BOOLEAN /\ co.par \in BOOLEAN /\ co.ended \in BOOLEAN
      /\ co.err \in Error /\ co.qerr \in Error /\ co.told \in Told
      /\ co.pc \in {"run", "resend", "commit", "done"}
  BY <1>1 DEF Coord
<1> QED
  BY <1>2, <1>3, <1>4, <1>5, <1>6, <1>7, NoIntentFacts

LEMMA Clocks ==
  ASSUME TypeOK
  PROVE  /\ co.epoch \in Nat /\ co.rts \in Nat /\ co.wts \in Nat /\ co.hrts \in Nat /\ co.hwts \in Nat
         /\ record.epoch \in Nat /\ record.ts \in Nat /\ co.keys \subseteq Key
BY Fields

LEMMA OnWayTypes ==
  ASSUME TypeOK
  PROVE  /\ OnWay \subseteq PutReq
         /\ \A q \in OnWay : q.key \in Key /\ q.epoch \in Nat /\ q.wts \in Nat /\ q.type = "put"
         /\ \A q \in OnWay : \/ q \in net
                             \/ /\ <<"put", q.key>> \in co.pend /\ q.epoch = co.epoch
                                /\ q = PutRequest(q.key, co.hrts, co.hwts)
         /\ \A k \in Key : <<"put", k>> \in co.pend => PutRequest(k, co.hrts, co.hwts) \in OnWay
         /\ \A q \in net : q.type = "put" => q \in OnWay
<1>1. \A k \in Key : PutRequest(k, co.hrts, co.hwts) \in PutReq
  BY Fields, RequestTypes
<1>2. \A k \in Key : LET q == PutRequest(k, co.hrts, co.hwts)
                     IN q.key = k /\ q.epoch = co.epoch /\ q.wts = co.hwts
  BY DEF PutRequest
<1>3. \A q \in net : q.type = "put" => q \in PutReq
  BY DEF TypeOK, PutReq, EndReq
<1>4. OnWay \subseteq PutReq
  BY <1>1, <1>3 DEF OnWay
<1>5. \A q \in PutReq : q.key \in Key /\ q.epoch \in Nat /\ q.wts \in Nat /\ q.type = "put"
  BY DEF PutReq
<1>6. \A q \in OnWay : \/ q \in net
                       \/ /\ <<"put", q.key>> \in co.pend /\ q.epoch = co.epoch
                          /\ q = PutRequest(q.key, co.hrts, co.hwts)
  BY <1>2 DEF OnWay
<1>7. /\ \A k \in Key : <<"put", k>> \in co.pend => PutRequest(k, co.hrts, co.hwts) \in OnWay
      /\ \A q \in net : q.type = "put" => q \in OnWay
  BY DEF OnWay
<1> QED
  BY <1>4, <1>5, <1>6, <1>7

LEMMA Requests ==
  /\ \A k, j : <<"put", k>> # <<"query", j>> /\ <<"put", k>> # End /\ <<"query", k>> # End
  /\ \A k, j : <<"put", k>> = <<"put", j>> => k = j
  /\ \A k, j : <<"query", k>> = <<"query", j>> => k = j
  /\ \A B, P : /\ \A k : <<"put", k>> \in Puts(B) \cup Queries(P) \cup {End} <=> k \in B
               /\ \A k : <<"query", k>> \in Puts(B) \cup Queries(P) \cup {End} <=> k \in P
<1>1. \A k, j : <<"put", k>> # <<"query", j>> /\ <<"put", k>> # End /\ <<"query", k>> # End
  BY DEF End
<1>2. \A k, j : (<<"put", k>> = <<"put", j>> => k = j) /\ (<<"query", k>> = <<"query", j>> => k = j)
  OBVIOUS
<1> QED
  BY <1>1, <1>2 DEF Puts, Queries

LEMMA OnWayKeys ==
  ASSUME TypeOK, CoInv, NetInv
  PROVE  \A q \in OnWay : q.key \in co.keys /\ q.epoch = co.epoch
<1> SUFFICES ASSUME NEW q \in OnWay
             PROVE  q.key \in co.keys /\ q.epoch = co.epoch
  OBVIOUS
<1>1. CASE q \in net
  BY <1>1, OnWayTypes DEF NetInv
<1>2. CASE <<"put", q.key>> \in co.pend /\ q.epoch = co.epoch
  <2>1. co.pc = "commit"
    BY <1>2 DEF CoInv
  <2>2. co.pend \subseteq Puts(co.batch) \cup Queries(co.piped) \cup {End}
        /\ co.keys = co.piped \cup co.batch
    BY <2>1 DEF CoInv
  <2> QED
    BY <1>2, <2>2, Requests
<1> QED
  BY <1>1, <1>2, OnWayTypes

\* No write becomes possible that was not: what every step guarantees, except the
\* ones that give the coordinator new writes to send.
Shrinks ==
  \A k \in Key : \A e, ts \in Nat :
    Possible(intent', tscache', OnWay', k, e, ts) => Possible(intent, tscache, OnWay, k, e, ts)

LEMMA ShrinkFrame ==
  ASSUME TypeOK, TypeOK', OnWay' \subseteq OnWay,
         \A k \in Key : tscache[k] <= tscache'[k],
         \A k \in Key : \/ intent'[k] = intent[k] \/ intent'[k] = NoIntent
                        \/ intent'[k].epoch = intent[k].epoch /\ intent[k].ts <= intent'[k].ts
  PROVE  Shrinks
<1> SUFFICES ASSUME NEW k \in Key, NEW e \in Nat, NEW ts \in Nat,
                    Possible(intent', tscache', OnWay', k, e, ts)
             PROVE  Possible(intent, tscache, OnWay, k, e, ts)
  BY DEF Shrinks
<1>1. /\ intent[k].ts \in Nat /\ intent'[k].ts \in Nat /\ tscache[k] \in Nat /\ tscache'[k] \in Nat
      /\ NoIntent.epoch # e
  BY Fields, NoIntentFacts, SMT, Z3 DEF TypeOK, ServerTypeOK
<1>2. CASE intent'[k].epoch = e /\ intent'[k].ts <= ts
  BY <1>1, <1>2, SMT, Z3 DEF Possible
<1>3. CASE tscache'[k] < ts /\ \E q \in OnWay' : q.key = k /\ q.epoch = e /\ q.wts <= ts
  BY <1>1, <1>3, SMT, Z3 DEF Possible
<1> QED
  BY <1>2, <1>3 DEF Possible

LEMMA ShrinkPut ==
  ASSUME TypeOK, NEW q \in OnWay, EvalPut(q), OnWay' \subseteq OnWay
  PROVE  Shrinks
<1> SUFFICES ASSUME NEW k \in Key, NEW e \in Nat, NEW ts \in Nat,
                    Possible(intent', tscache', OnWay', k, e, ts)
             PROVE  Possible(intent, tscache, OnWay, k, e, ts)
  BY DEF Shrinks
<1>1. q \in PutReq /\ ServerTypeOK /\ q.key \in Key /\ q.epoch \in Nat /\ q.wts \in Nat
  BY OnWayTypes DEF TypeOK
<1>2. /\ tscache' = tscache /\ \A j \in Key \ {q.key} : intent'[j] = intent[j]
      /\ \/ UNCHANGED intent
         \/ intent'[q.key] = [epoch |-> q.epoch, ts |-> PutTS(q)]
  BY <1>1, EvalPutFacts
<1>3. CASE intent'[k] = intent[k]
  BY <1>2, <1>3 DEF Possible
<1>4. CASE k = q.key /\ intent'[k] = [epoch |-> q.epoch, ts |-> PutTS(q)]
  <2>1. /\ PutTS(q) \in Nat /\ intent[k].ts \in Nat /\ tscache[k] \in Nat
        /\ intent[k].epoch # e \/ q.epoch # e \/ PutTS(q) = intent[k].ts
        /\ intent[k].epoch = q.epoch \/ (q.wts <= PutTS(q) /\ tscache[k] + 1 <= PutTS(q))
    BY <1>1, <1>4, PutFacts, Fields, SMT, Z3
  <2>2. CASE q.epoch = e /\ PutTS(q) <= ts
    BY <1>1, <1>4, <2>1, <2>2, SMT, Z3 DEF Possible
  <2>3. CASE ~(q.epoch = e /\ PutTS(q) <= ts)
    BY <1>2, <1>4, <2>3, SMT, Z3 DEF Possible
  <2> QED
    BY <2>2, <2>3
<1> QED
  BY <1>2, <1>3, <1>4

\* A commit that is off stays off.
LEMMA StaysDead ==
  ASSUME TypeOK, Shrinks
  PROVE  /\ co'.keys = co.keys /\ co'.epoch = co.epoch /\ co'.hwts = co.hwts /\ DeadBatch => DeadBatch'
         /\ record' = record /\ Dead => Dead'
<1>1. /\ co.keys \subseteq Key /\ co.epoch \in Nat /\ co.hwts \in Nat
      /\ record.writes \subseteq Key /\ record.epoch \in Nat /\ record.ts \in Nat
  BY Fields
<1>2. ASSUME co'.keys = co.keys, co'.epoch = co.epoch, co'.hwts = co.hwts, DeadBatch
      PROVE  DeadBatch'
  <2>1. PICK k \in co.keys : ~Possible(intent, tscache, OnWay, k, co.epoch, co.hwts)
    BY <1>2 DEF DeadBatch, Alive
  <2>2. ~Possible(intent', tscache', OnWay', k, co.epoch, co.hwts)
    BY <1>1, <2>1 DEF Shrinks
  <2> QED
    BY <1>2, <2>2 DEF DeadBatch, Alive
<1>3. ASSUME record' = record, Dead
      PROVE  Dead'
  <2>1. PICK k \in record.writes : ~Possible(intent, tscache, OnWay, k, record.epoch, record.ts)
    BY <1>3 DEF Dead, Alive
  <2>2. ~Possible(intent', tscache', OnWay', k, record.epoch, record.ts)
    BY <1>1, <2>1 DEF Shrinks
  <2> QED
    BY <1>3, <2>2 DEF Dead, Alive
<1> QED
  BY <1>2, <1>3

-----------------------------------------------------------------------------
(***************************************************************************)
(* Steps of the server that the coordinator takes no part in.              *)
(***************************************************************************)

\* The batch of the coordinator stays the same.
Continues ==
  /\ co'.epoch = co.epoch /\ co'.keys = co.keys /\ co'.par = co.par
  /\ co'.hrts = co.hrts /\ co'.hwts = co.hwts
  /\ co.pc # "run" => co'.pc # "run"
  /\ co.told = "ambiguous" => co'.told = "ambiguous"
  /\ ~Unevaluated => ~Unevaluated' /\ (co'.err = "retry" => co.err = "retry")

LEMMA CoordinatorIdle ==
  ASSUME CoInv, NetInv, UNCHANGED co, net' \subseteq net,
         \A q \in net \ net' : q.type = "end"
  PROVE  /\ CoInv' /\ NetInv' /\ OnWay' = OnWay /\ Continues
         /\ (Unevaluated' => Unevaluated) /\ Doomed' = Doomed /\ Concurrent' = Concurrent
<1>1. /\ OnWay' = OnWay /\ Doomed' = Doomed /\ Concurrent' = Concurrent
      /\ CommitRequest' = CommitRequest /\ ExplicitCommit' = ExplicitCommit
  BY DEF OnWay, Doomed, Concurrent, Final, PutRequest, CommitRequest, ExplicitCommit, InFlight
<1>2. Unevaluated' => Unevaluated
  BY DEF Unevaluated
<1>3. CoInv'
  BY <1>1, <1>2, SMT, Z3 DEF CoInv
<1>4. NetInv'
  BY <1>1 DEF NetInv
<1> QED
  BY <1>1, <1>2, <1>3, <1>4 DEF Continues

\* Steps that change no record, intent or outcome.
LEMMA AsideKeepsRest ==
  ASSUME IInv, TypeOK', PushInv', UNCHANGED co, net' \subseteq net,
         \A q \in net \ net' : q.type = "end",
         UNCHANGED <<record, intent, mine, seen, outcomes, cleaned>>,
         tombstone => tombstone', \A k \in Key : tscache[k] <= tscache'[k]
  PROVE  /\ CoInv' /\ NetInv' /\ EpochInv' /\ Landed' /\ NoticeInv' /\ StagingInv'
         /\ FinalInv' /\ CommittedInv' /\ AckInv' /\ Shrinks
         /\ OnWay' = OnWay /\ Continues /\ Committed' = Committed
<1>1. /\ CoInv' /\ NetInv' /\ OnWay' = OnWay /\ Continues
      /\ (Unevaluated' => Unevaluated) /\ Doomed' = Doomed /\ Concurrent' = Concurrent
  BY CoordinatorIdle DEF IInv
<1>2. Shrinks
  BY <1>1, ShrinkFrame DEF IInv
<1>3. /\ Committed' = Committed /\ (NotFinal' => NotFinal)
      /\ (DeadBatch => DeadBatch') /\ (Dead => Dead')
  BY <1>2, StaysDead DEF IInv, Committed, NotFinal
<1>4. \A k \in co.keys : ~Alive(k, co.epoch, co.hwts)
        => ~Possible(intent', tscache', OnWay', k, co.epoch, co.hwts)
  BY <1>2, Fields DEF IInv, Shrinks, Alive
<1>5. EpochInv'
  BY <1>1, <1>3 DEF IInv, EpochInv
<1>6. Landed'
  BY <1>1, <1>3 DEF IInv, Landed, Final
<1>7. NoticeInv'
  BY <1>1, <1>3 DEF IInv, NoticeInv
<1>8. StagingInv'
  BY <1>1, <1>3 DEF IInv, StagingInv
<1>9. FinalInv'
  BY <1>3 DEF IInv, FinalInv
<1>10. CommittedInv'
  BY <1>1, <1>3 DEF IInv, CommittedInv, Found
<1>11. AckInv'
  BY <1>3, <1>4 DEF IInv, AckInv, Found, Alive
<1> QED
  BY <1>1, <1>2, <1>3, <1>5, <1>6, <1>7, <1>8, <1>9, <1>10, <1>11

\* Probing(v) of the next state: what a recovery knows it keeps knowing, as long as
\* the record and the writes it has found are left alone.
ProbingNext(v) ==
  /\ \/ Superseded(co', v.epoch, v.ts)
     \/ /\ Current(co', v.epoch, v.ts) /\ ~Unevaluated'
        /\ v.todo \subseteq co'.keys
        /\ v.missed => DeadBatch'
  /\ \/ Committed' /\ Current(co', v.epoch, v.ts)
     \/ /\ record'.st = "STAGING" /\ record'.epoch = v.epoch /\ record'.ts = v.ts
        /\ \A k \in record'.writes \ v.todo : intent'[k].epoch = v.epoch /\ intent'[k].ts <= v.ts
     \/ v.missed
     \/ \E k \in v.todo : ~Possible(intent', tscache', OnWay', k, v.epoch, v.ts)
     \/ co'.told = "ambiguous" /\ NeverCommits'

LEMMA ProbingKept ==
  ASSUME IInv, Continues, Shrinks, NEW v \in Recovery, Probing(v), Committed => Committed',
         NeverCommits => NeverCommits',
         \/ /\ UNCHANGED record
            /\ \A k \in record.writes : Found(k, record.epoch, record.ts) =>
                 intent'[k].epoch = record.epoch /\ intent'[k].ts <= record.ts
         \/ record.st # "STAGING" \/ Dead \/ Committed'
         \/ co.told = "ambiguous" /\ NeverCommits'
  PROVE  ProbingNext(v)
<1>1. v.todo \subseteq Key /\ v.epoch \in Nat /\ v.ts \in Nat
  BY DEF Recovery
<1>2. /\ DeadBatch => DeadBatch'
      /\ Superseded(co, v.epoch, v.ts) => Superseded(co', v.epoch, v.ts)
      /\ ~Unevaluated /\ Current(co, v.epoch, v.ts) => Current(co', v.epoch, v.ts) /\ ~Unevaluated'
      /\ Committed => ~Unevaluated
  BY StaysDead DEF IInv, Continues, Superseded, Current, CommittedInv
<1>3. \A k \in v.todo : ~Alive(k, v.epoch, v.ts) =>
        ~Possible(intent', tscache', OnWay', k, v.epoch, v.ts)
  BY <1>1 DEF Shrinks, Alive
<1>4. /\ record.st = "STAGING" /\ record.epoch = v.epoch /\ record.ts = v.ts
      /\ \A k \in record.writes \ v.todo : Found(k, v.epoch, v.ts)
      => \/ \E k \in v.todo : ~Alive(k, v.epoch, v.ts)
         \/ ~Dead /\ Current(co, v.epoch, v.ts) /\ ~Unevaluated
  BY SMT, Z3 DEF IInv, StagingInv, Dead, Alive, Possible, Found
<1>5. \/ Committed' /\ Current(co', v.epoch, v.ts)
      \/ /\ record'.st = "STAGING" /\ record'.epoch = v.epoch /\ record'.ts = v.ts
         /\ \A k \in record'.writes \ v.todo : intent'[k].epoch = v.epoch /\ intent'[k].ts <= v.ts
      \/ v.missed
      \/ \E k \in v.todo : ~Possible(intent', tscache', OnWay', k, v.epoch, v.ts)
      \/ co'.told = "ambiguous" /\ NeverCommits'
  BY <1>2, <1>3, <1>4 DEF Probing, Informed, Continues
<1> QED
  BY <1>2, <1>5 DEF Probing, ProbingNext, Continues

LEMMA RecoveriesKept ==
  ASSUME IInv, TypeOK', Continues, Shrinks, Committed => Committed',
         NeverCommits => NeverCommits',
         \/ /\ UNCHANGED record
            /\ \A k \in record.writes : Found(k, record.epoch, record.ts) =>
                 intent'[k].epoch = record.epoch /\ intent'[k].ts <= record.ts
         \/ record.st # "STAGING" \/ Dead \/ Committed'
         \/ co.told = "ambiguous" /\ NeverCommits',
         \A r \in Recoverer : recovery'[r] = recovery[r] \/ recovery'[r].pc = "idle"
  PROVE  RecoveryInv'
<1> SUFFICES ASSUME NEW r \in Recoverer, recovery'[r].pc = "probe"
             PROVE  Probing(recovery[r])'
  BY DEF RecoveryInv
<1>1. recovery'[r] = recovery[r] /\ recovery[r] \in Recovery
  BY DEF IInv, TypeOK, ServerTypeOK
<1>2. Probing(recovery[r])
  BY <1>1 DEF IInv, RecoveryInv
<1>3. ProbingNext(recovery[r])
  BY <1>1, <1>2, ProbingKept
<1> QED
  BY <1>1, <1>3 DEF ProbingNext, Probing, Informed, Alive, Found
SameBatch ==
  /\ co'.pc = co.pc /\ co'.epoch = co.epoch /\ co'.rts = co.rts /\ co'.fwd = co.fwd
  /\ co'.keys = co.keys /\ co'.old = co.old /\ co'.piped = co.piped /\ co'.batch = co.batch
  /\ co'.par = co.par /\ co'.ended = co.ended /\ co'.hrts = co.hrts /\ co'.hwts = co.hwts
  /\ co'.amb = co.amb /\ co'.told = co.told

LEMMA SameRequests ==
  ASSUME SameBatch
  PROVE  /\ Concurrent' = Concurrent /\ CommitRequest' = CommitRequest
         /\ OnWay' = {PutRequest(k, co.hrts, co.hwts) : k \in {j \in Key : <<"put", j>> \in co'.pend}}
                       \cup {q \in net' : q.type = "put"}
         /\ co'.staged = co.staged => ExplicitCommit' = ExplicitCommit
BY DEF SameBatch, Concurrent, CommitRequest, InFlight, OnWay, PutRequest, ExplicitCommit

-----------------------------------------------------------------------------
(***************************************************************************)
(* Steps of the servers.                                                   *)
(***************************************************************************)

LEMMA LeaseChangeKeeps ==
  ASSUME IInv, TypeOK', PushInv', UNCHANGED <<co, net>>, RecordLeaseChange
  PROVE  IInv'
<1>1. /\ UNCHANGED <<record, intent, mine, seen, outcomes, cleaned, recovery, tscache>> /\ tombstone'
  BY DEF RecordLeaseChange
<1>2. \A k \in Key : tscache[k] <= tscache'[k]
  BY <1>1, Fields, SMT, Z3 DEF IInv
<1>3. /\ CoInv' /\ NetInv' /\ EpochInv' /\ Landed' /\ NoticeInv' /\ StagingInv'
      /\ FinalInv' /\ CommittedInv' /\ AckInv' /\ Shrinks
      /\ OnWay' = OnWay /\ Continues /\ Committed' = Committed
  BY <1>1, <1>2, AsideKeepsRest
<1>4. RecoveryInv'
  BY <1>1, <1>3, RecoveriesKept DEF Found, NeverCommits, NotFinal
<1> QED
  BY <1>3, <1>4 DEF IInv

LEMMA ProbeIntentInforms ==
  ASSUME IInv, TypeOK', UNCHANGED <<co, net>>, NEW r \in Recoverer, NEW k \in Key, ProbeIntent(r, k),
         Shrinks, Continues, Committed' = Committed, NotFinal' = NotFinal
  PROVE  Probing(recovery[r])'
<1> DEFINE v == recovery[r]
<1>1. v \in Recovery /\ v.epoch \in Nat /\ v.ts \in Nat /\ v.todo \subseteq Key
      /\ recovery \in [Recoverer -> Recovery]
  BY DEF IInv, TypeOK, ServerTypeOK, Recovery
<1>2. /\ v.pc = "probe" /\ k \in v.todo /\ UNCHANGED <<record, intent>>
      /\ tscache' = QueriedCache(k, v.epoch, v.ts)
      /\ recovery'[r].epoch = v.epoch /\ recovery'[r].ts = v.ts
      /\ recovery'[r].todo = v.todo \ {k}
      /\ recovery'[r].missed = (v.missed \/ ~Found(k, v.epoch, v.ts))
  BY <1>1 DEF ProbeIntent, Recovery
<1>3. Probing(v)
  BY <1>2 DEF IInv, RecoveryInv
<1>4. ProbingNext(v)
  BY <1>1, <1>2, <1>3, ProbingKept DEF Found, NeverCommits
<1>5. ~Found(k, v.epoch, v.ts) => ~Possible(intent', tscache', OnWay', k, v.epoch, v.ts)
  <2>1. ~Found(k, v.epoch, v.ts) => v.ts <= tscache'[k]
    BY <1>1, <1>2, QueriedCacheFacts DEF IInv, TypeOK
  <2>2. tscache'[k] \in Nat
    BY DEF TypeOK, ServerTypeOK
  <2> QED
    BY <1>1, <1>2, <2>1, <2>2, SMT, Z3 DEF Possible, Found
<1>6. Found(k, v.epoch, v.ts) => Possible(intent', tscache', OnWay', k, v.epoch, v.ts)
  BY <1>2 DEF Possible, Found
<1> HIDE DEF v
<1>7. \/ Superseded(co', v.epoch, v.ts)
      \/ /\ Current(co', v.epoch, v.ts) /\ ~Unevaluated'
         /\ v.todo \ {k} \subseteq co'.keys
         /\ v.missed \/ ~Found(k, v.epoch, v.ts) => DeadBatch'
  <2>1. CASE Superseded(co', v.epoch, v.ts)
    BY <2>1
  <2>2. CASE /\ Current(co', v.epoch, v.ts) /\ ~Unevaluated'
             /\ v.todo \subseteq co'.keys
             /\ v.missed => DeadBatch'
    <3>1. ~Found(k, v.epoch, v.ts) => DeadBatch'
      BY <1>2, <1>5, <2>2 DEF DeadBatch, Alive, Current
    <3> QED
      BY <2>2, <3>1
  <2> QED
    BY <1>4, <2>1, <2>2 DEF ProbingNext
<1>8. \/ Committed' /\ Current(co', v.epoch, v.ts)
      \/ /\ record'.st = "STAGING" /\ record'.epoch = v.epoch /\ record'.ts = v.ts
         /\ \A j \in record'.writes \ (v.todo \ {k}) :
              intent'[j].epoch = v.epoch /\ intent'[j].ts <= v.ts
      \/ v.missed \/ ~Found(k, v.epoch, v.ts)
      \/ \E j \in v.todo \ {k} : ~Possible(intent', tscache', OnWay', j, v.epoch, v.ts)
      \/ co'.told = "ambiguous" /\ NeverCommits'
  BY <1>2, <1>4, <1>6 DEF ProbingNext, Found
<1> QED
  BY <1>2, <1>7, <1>8 DEF Probing, Informed, Alive, Found

LEMMA StartRecoveryInforms ==
  ASSUME IInv, TypeOK', UNCHANGED <<co, net>>, NEW r \in Recoverer, NEW m, NEW type, NEW to,
         StartRecovery(r, m, type, to), OnWay' = OnWay, Continues
  PROVE  Probing(recovery[r])'
<1>1. /\ recovery'[r].epoch = record.epoch /\ recovery'[r].ts = record.ts
      /\ recovery'[r].todo = record.writes /\ ~recovery'[r].missed
      /\ UNCHANGED <<record, intent, tscache>> /\ PushIndeterminate(m, type, to)
  BY DEF StartRecovery, IInv, TypeOK, ServerTypeOK, Idle
<1>2. record.st = "STAGING"
  <2>1. record \in Record
    BY DEF IInv, TypeOK, ServerTypeOK
  <2>2. Pushee(SynthesizeTxnFromMeta(m), m).st = "STAGING"
    BY <1>1 DEF PushIndeterminate
  <2>3. CASE record.st # "none"
    BY <2>1, <2>2, <2>3 DEF Pushee, SynthesizeTxnFromMeta, Record
  <2>4. CASE record.st = "none"
    BY <2>2, <2>4 DEF Pushee, SynthesizeTxnFromMeta, NoRecord
  <2> QED
    BY <2>3, <2>4
<1>3. \/ Superseded(co, record.epoch, record.ts)
      \/ Current(co, record.epoch, record.ts) /\ ~Unevaluated /\ record.writes = co.keys
  BY <1>2 DEF IInv, StagingInv
<1> QED
  BY <1>1, <1>2, <1>3 DEF Probing, Informed, Continues

LEMMA AsideKeepsIInv ==
  ASSUME IInv, TypeOK', PushInv', UNCHANGED <<co, net>>,
         \/ \E k \in Key, ts \in TS : BumpTSCache(k, ts) \/ ForeignCommit(k, ts)
         \/ \E r \in Recoverer : ProbeTxn(r)
         \/ \E r \in Recoverer, k \in Key : ProbeIntent(r, k)
         \/ \E r \in Recoverer, m \in seen, type \in {"abort", "timestamp"}, to \in TS :
              StartRecovery(r, m, type, to)
  PROVE  IInv'
<1>1. Aside /\ \A k \in Key : tscache[k] <= tscache'[k]
  BY AsideKeeps DEF IInv, TypeOK
<1>2. /\ CoInv' /\ NetInv' /\ EpochInv' /\ Landed' /\ NoticeInv' /\ StagingInv'
      /\ FinalInv' /\ CommittedInv' /\ AckInv' /\ Shrinks
      /\ OnWay' = OnWay /\ Continues /\ Committed' = Committed
  BY <1>1, AsideKeepsRest DEF Aside
<1>3. recovery \in [Recoverer -> Recovery] /\ UNCHANGED <<record, intent>> /\ NotFinal' = NotFinal
  BY <1>1 DEF IInv, TypeOK, ServerTypeOK, Aside, NotFinal
<1>4. ASSUME NEW r \in Recoverer, recovery'[r].pc = "probe", recovery'[r] # recovery[r]
      PROVE  Probing(recovery[r])'
  <2>1. CASE ProbeTxn(r)
    <3>1. /\ recovery[r].pc = "probe" /\ recovery'[r].epoch = recovery[r].epoch
          /\ recovery'[r].ts = recovery[r].ts /\ recovery'[r].todo = recovery[r].todo
          /\ recovery'[r].missed = recovery[r].missed
      BY <1>3, <2>1 DEF ProbeTxn, Recovery
    <3>2. ProbingNext(recovery[r])
      BY <1>2, <1>3, <3>1, ProbingKept DEF IInv, RecoveryInv, Found, NeverCommits
    <3> QED
      BY <3>1, <3>2 DEF ProbingNext, Probing, Informed, Alive, Found
  <2>2. CASE \E k \in Key : ProbeIntent(r, k)
    BY <1>2, <1>3, <2>2, ProbeIntentInforms
  <2>3. CASE \E m \in seen, type \in {"abort", "timestamp"}, to \in TS : StartRecovery(r, m, type, to)
    BY <1>2, <2>3, StartRecoveryInforms
  <2>4. ~\E k \in Key, ts \in TS : BumpTSCache(k, ts) \/ ForeignCommit(k, ts)
    BY <1>4 DEF BumpTSCache, ForeignCommit
  <2>5. ASSUME NEW p \in Recoverer, p # r
        PROVE  /\ ~ProbeTxn(p) /\ \A k \in Key : ~ProbeIntent(p, k)
               /\ \A m \in seen, type \in {"abort", "timestamp"}, to \in TS : ~StartRecovery(p, m, type, to)
    <3>1. \A w : recovery' # [recovery EXCEPT ![p] = w]
      BY <1>3, <1>4, <2>5
    <3> QED
      BY <3>1 DEF ProbeTxn, ProbeIntent, StartRecovery
  <2> QED
    BY <2>1, <2>2, <2>3, <2>4, <2>5
<1>5. ASSUME NEW r \in Recoverer, recovery'[r].pc = "probe", recovery'[r] = recovery[r]
      PROVE  Probing(recovery[r])'
  <2>1. ProbingNext(recovery[r])
    BY <1>2, <1>3, <1>5, ProbingKept DEF IInv, RecoveryInv, Found, NeverCommits
  <2> QED
    BY <1>5, <2>1 DEF ProbingNext, Probing, Informed, Alive, Found
<1> QED
  BY <1>2, <1>4, <1>5 DEF IInv, RecoveryInv

\* When the commit of a record that is current is off, and its coordinator has an
\* answer to EndTxn, it knows or the answers it waits for will tell.
LEMMA Evidence ==
  ASSUME IInv, record.st = "STAGING", record.epoch = co.epoch, Dead, co.par, co.pc = "commit"
  PROVE  \/ co.err # "none" \/ co.qerr # "none" \/ co.wts > co.hwts
         \/ \E k \in co.keys : /\ ~Alive(k, co.epoch, co.hwts)
                               /\ <<"put", k>> \in co.pend \/ <<"query", k>> \in co.pend
<1> SUFFICES ASSUME co.err = "none", co.qerr = "none"
             PROVE  \/ co.wts > co.hwts
                    \/ \E k \in co.keys : /\ ~Alive(k, co.epoch, co.hwts)
                                          /\ <<"put", k>> \in co.pend \/ <<"query", k>> \in co.pend
  OBVIOUS
<1>1. /\ co.epoch \in Nat /\ co.hwts \in Nat /\ co.wts \in Nat /\ record.ts \in Nat /\ co.keys \subseteq Key
      /\ \A k \in Key : intent[k].ts \in Nat /\ (intent[k].epoch = co.epoch => intent[k] # NoIntent)
      /\ \A o \in outcomes : o.ts \in Nat
  BY Fields, NoIntentFacts, SMT, Z3 DEF IInv
<1>2. record.ts = co.hwts /\ record.writes = co.keys
  BY <1>1, SMT, Z3 DEF IInv, StagingInv, Superseded, Current
<1>3. PICK k \in co.keys : ~Alive(k, co.epoch, co.hwts)
  BY <1>2 DEF Dead
<1>4. \/ <<"put", k>> \in co.pend \/ <<"query", k>> \in co.pend
      \/ intent[k].epoch = co.epoch
  BY DEF IInv, Landed, NotFinal, Final
<1>5. ASSUME intent[k].epoch = co.epoch
      PROVE  co.wts > co.hwts
  <2>1. intent[k].ts > co.hwts /\ intent[k] \in seen
    BY <1>1, <1>3, <1>5, SMT, Z3 DEF Alive, Possible, IInv, EpochInv
  <2>2. \A o \in outcomes : o.st # "ABORTED" => o.ts <= co.hwts
    BY <1>2 DEF IInv, PushInv
  <2>3. ~Doomed
    BY DEF Doomed, Final
  <2> QED
    BY <1>1, <2>1, <2>2, <2>3, SMT, Z3 DEF IInv, EpochInv
<1> QED
  BY <1>3, <1>4, <1>5

\* A record that is finalized, or moved, without a commit: nobody has committed, and
\* a commit that it staged is off, or is rolled back by a client in the dark.
LEMMA UnstagedKeeps ==
  ASSUME IInv, TypeOK', PushInv', UNCHANGED co, net' \subseteq net,
         \A q \in net \ net' : q.type = "end",
         UNCHANGED <<intent, tscache, mine, seen, cleaned>>,
         NotFinal, record'.st \notin {"STAGING", "COMMITTED"}, record'.epoch <= co.epoch,
         record.st = "STAGING" => Dead \/ (co.told = "ambiguous" /\ ~NotFinal'),
         \A o \in outcomes' : \/ o \in outcomes
                              \/ /\ o.st # "COMMITTED" /\ o.epoch <= co.epoch
                                 /\ o.st = "ABORTED" => ~NotFinal',
         outcomes \subseteq outcomes',
         \A r \in Recoverer : recovery'[r] = recovery[r] \/ recovery'[r].pc = "idle"
  PROVE  IInv'
<1>1. /\ CoInv' /\ NetInv' /\ OnWay' = OnWay /\ Continues
      /\ (Unevaluated' => Unevaluated) /\ Doomed' = Doomed /\ Concurrent' = Concurrent
  BY CoordinatorIdle DEF IInv
<1>2. Shrinks
  BY <1>1, ShrinkFrame, Fields, SMT, Z3 DEF IInv
<1>3. ~Committed /\ ~Committed' /\ (DeadBatch' = DeadBatch) /\ cleaned = {}
  BY <1>1 DEF IInv, FinalInv, Committed, DeadBatch, Alive, NotFinal, Finalized
<1>4. RecoveryInv'
  BY <1>1, <1>2, <1>3, RecoveriesKept DEF IInv, NeverCommits
<1>5. EpochInv'
  BY <1>1, <1>3 DEF IInv, EpochInv
<1>6. Landed'
  BY <1>1, <1>3 DEF IInv, Landed, Final
<1>7. NoticeInv'
  BY <1>1, <1>3 DEF IInv, NoticeInv
<1>8. StagingInv' /\ CommittedInv'
  BY <1>3 DEF StagingInv, CommittedInv
<1>9. FinalInv'
  BY <1>3 DEF IInv, FinalInv
<1>10. co.staged # 0 /\ co.pc = "commit" =>
         /\ co.par
         /\ \/ co.err # "none" \/ co.qerr # "none" \/ co.wts > co.hwts
            \/ \E k \in co.keys : /\ ~Alive(k, co.epoch, co.hwts)
                                  /\ <<"put", k>> \in co.pend \/ <<"query", k>> \in co.pend
  <2>1. co.pc = "commit" => co.told # "ambiguous"
    BY DEF IInv, CoInv
  <2> QED
    BY <1>3, <2>1, Evidence DEF IInv, AckInv
<1>11. co.told # "committed"
  <2> SUFFICES ASSUME co.told = "committed" PROVE FALSE
    OBVIOUS
  <2>1. /\ co.par /\ record.st = "STAGING" /\ record.epoch = co.epoch
        /\ \A k \in co.keys : Found(k, co.epoch, co.hwts)
    BY <1>3 DEF IInv, AckInv
  <2>2. record.writes = co.keys /\ record.ts = co.hwts
    BY <2>1, Fields, SMT, Z3 DEF IInv, StagingInv, Superseded, Current
  <2> QED
    BY <2>1, <2>2 DEF Dead, Alive, Possible, Found
<1>12. AckInv'
  BY <1>1, <1>10, <1>11 DEF AckInv, Alive
<1> QED
  BY <1>1, <1>4, <1>5, <1>6, <1>7, <1>8, <1>9, <1>12 DEF IInv

\* A commit that every write of the current batch is there for.
LEMMA CommittedKeeps ==
  ASSUME IInv, TypeOK', PushInv', UNCHANGED co, net' \subseteq net,
         \A q \in net \ net' : q.type = "end",
         UNCHANGED <<intent, tscache, mine, seen, cleaned>>,
         record.st = "STAGING", Current(co, record.epoch, record.ts), ~Unevaluated,
         \A k \in co.keys : Found(k, co.epoch, co.hwts),
         record'.st = "COMMITTED", record'.epoch = record.epoch, record'.ts = record.ts,
         co.keys \subseteq record'.locks,
         \A o \in outcomes' : \/ o \in outcomes
                              \/ o.st = "COMMITTED" /\ o.epoch = record.epoch /\ o.ts = record.ts,
         outcomes \subseteq outcomes',
         \A r \in Recoverer : recovery'[r] = recovery[r] \/ recovery'[r].pc = "idle"
  PROVE  IInv'
<1>1. /\ CoInv' /\ NetInv' /\ OnWay' = OnWay /\ Continues
      /\ (Unevaluated' => Unevaluated) /\ Doomed' = Doomed /\ Concurrent' = Concurrent
  BY CoordinatorIdle DEF IInv
<1>2. Shrinks
  BY <1>1, ShrinkFrame, Fields, SMT, Z3 DEF IInv
<1>3. /\ NotFinal /\ ~Committed /\ Committed' /\ ~NotFinal' /\ ~DeadBatch
      /\ (DeadBatch' = DeadBatch) /\ cleaned = {}
  BY <1>1 DEF IInv, FinalInv, Committed, DeadBatch, Alive, Possible, Found, NotFinal, Finalized
<1>4. RecoveryInv'
  BY <1>1, <1>2, <1>3, RecoveriesKept DEF IInv, NeverCommits
<1>5. EpochInv'
  BY <1>1, <1>3 DEF IInv, EpochInv
<1>6. Landed'
  BY <1>1, <1>3 DEF IInv, Landed, Final
<1>7. NoticeInv'
  BY <1>1, <1>3 DEF IInv, NoticeInv
<1>8. StagingInv' /\ FinalInv' /\ AckInv'
  BY <1>3 DEF StagingInv, FinalInv, AckInv, Finalized
<1>9. OnWay = {}
  <2>1. \A q \in OnWay : q.key \in co.keys
    BY OnWayKeys DEF IInv
  <2>2. co.par /\ co.epoch \in Nat
    BY Clocks DEF IInv, Current
  <2>3. \A q \in OnWay : intent[q.key].epoch < co.epoch
    BY <2>2 DEF IInv, Landed
  <2> QED
    BY <2>1, <2>2, <2>3, SMT, Z3 DEF Found
<1>10. CommittedInv'
  <2>1. co.pc = "commit" => co.err \in {"none", "ambiguous"} /\ co.qerr = "none"
    BY <1>3 DEF IInv, CoInv, NoticeInv, Current, Unevaluated
  <2>2. co.wts = co.hwts
    <3>1. co.hwts <= co.wts /\ co.hwts \in Nat /\ co.wts \in Nat
      BY Clocks DEF IInv, CoInv
    <3>2. ~(co.wts > co.hwts)
      BY <1>3 DEF IInv, NoticeInv, Current
    <3> QED
      BY <3>1, <3>2, SMT, Z3
  <2>3. /\ co.keys # {}
        /\ \A o \in outcomes' : /\ o.st = "COMMITTED" => o.epoch = co.epoch /\ o.ts = co.hwts
                                /\ o.st # "ABORTED"
    BY <1>3 DEF IInv, CoInv, Current, FinalInv, Committed
  <2>4. \A k \in Key : mine[k] = NoIntent
    BY <1>3 DEF Committed
  <2> QED
    BY <1>1, <1>3, <1>9, <2>1, <2>2, <2>3, <2>4 DEF CommittedInv, Current, Found
<1> QED
  BY <1>1, <1>4, <1>5, <1>6, <1>7, <1>8, <1>10 DEF IInv

LEMMA HeartbeatKeepsIInv ==
  ASSUME IInv, TypeOK', PushInv', UNCHANGED <<co, net>>, HeartbeatTxn(co.epoch, co.wts)
  PROVE  IInv'
<1>1. UNCHANGED <<intent, tscache, mine, seen, cleaned, outcomes, recovery>>
  BY DEF HeartbeatTxn
<1>2. record.st = "none" /\ ~tombstone /\ record'.st = "PENDING" /\ record'.epoch = co.epoch
  BY HeartbeatKeeps, Fields DEF IInv, TypeOK
<1>3. record'.epoch <= co.epoch
  BY <1>2, Fields, SMT, Z3 DEF IInv
<1> QED
  BY <1>1, <1>2, <1>3, UnstagedKeeps DEF NotFinal

\* A pusher that knows better than a STAGING record has met an intent that the
\* staged commit cannot have.
LEMMA BetterPusherSeesDead ==
  ASSUME IInv, NEW m \in seen, record.st = "STAGING", PusherKnowsBetter(record, m)
  PROVE  Dead
<1> SUFFICES ASSUME ~(Superseded(co, record.epoch, record.ts) /\ Dead)
             PROVE  Dead
  OBVIOUS
<1>1. /\ co.epoch \in Nat /\ co.hwts \in Nat /\ co.wts \in Nat /\ record.ts \in Nat
      /\ m.ts \in Nat /\ m.epoch \in Nat /\ \A o \in outcomes : o.ts \in Nat
  BY Fields DEF IInv
<1>2. Current(co, record.epoch, record.ts) /\ ~Unevaluated /\ record.writes = co.keys
  BY DEF IInv, StagingInv
<1>3. m.ts > co.hwts
  BY <1>1, <1>2, SMT, Z3 DEF IInv, EpochInv, Current, PusherKnowsBetter
<1>4. \A o \in outcomes : o.st # "ABORTED" => o.ts <= co.hwts
  BY <1>2 DEF IInv, PushInv, Current
<1>5. \/ co.wts > co.hwts
      \/ Doomed /\ IF Concurrent THEN DeadBatch ELSE ~co.ended
  BY <1>1, <1>3, <1>4, SMT, Z3 DEF IInv, EpochInv
<1>6. DeadBatch
  BY <1>2, <1>5 DEF IInv, NoticeInv, Current, Unevaluated
<1> QED
  BY <1>2, <1>6 DEF Dead, DeadBatch, Current

LEMMA AnswersKeep ==
  ASSUME IInv, TypeOK', PushInv', UNCHANGED co, net' \subseteq net,
         \A q \in net \ net' : q.type = "end",
         UNCHANGED <<record, tombstone, intent, tscache, mine, seen, cleaned, recovery>>,
         NEW O, outcomes' = outcomes \cup O,
         \A o \in O :
           /\ o.epoch <= co.epoch
           /\ o.st = "COMMITTED" =>
                record.st = "COMMITTED" /\ o.epoch = record.epoch /\ o.ts = record.ts
           /\ o.st = "ABORTED" => record.st = "ABORTED" \/ (record.st = "none" /\ tombstone)
  PROVE  IInv'
<1>1. /\ CoInv' /\ NetInv' /\ OnWay' = OnWay /\ Continues
      /\ (Unevaluated' => Unevaluated) /\ Doomed' = Doomed /\ Concurrent' = Concurrent
  BY CoordinatorIdle DEF IInv
<1>2. Shrinks
  BY <1>1, ShrinkFrame, Fields, SMT, Z3 DEF IInv
<1>3. /\ Committed' = Committed /\ NotFinal' = NotFinal /\ Dead' = Dead /\ DeadBatch' = DeadBatch
  BY <1>1 DEF Committed, NotFinal, Dead, DeadBatch, Alive
<1>4. RecoveryInv'
  BY <1>1, <1>2, <1>3, RecoveriesKept DEF Found, NeverCommits
<1>5. EpochInv'
  BY <1>1, <1>3 DEF IInv, EpochInv
<1>6. Landed'
  BY <1>1, <1>3 DEF IInv, Landed, Final
<1>7. NoticeInv'
  BY <1>1, <1>3 DEF IInv, NoticeInv
<1>8. StagingInv'
  BY <1>1, <1>3 DEF IInv, StagingInv
<1>9. FinalInv'
  BY <1>3 DEF IInv, FinalInv, NotFinal
<1>10. CommittedInv'
  <2>1. CASE ~Committed
    BY <1>3, <2>1 DEF CommittedInv
  <2>2. CASE Committed
    <3>1. /\ co.pc # "run" /\ ~Unevaluated /\ co.hrts = co.hwts /\ OnWay = {}
          /\ co.pc = "commit" =>
               co.err \in {"none", "ambiguous"} /\ co.qerr \in {"none", "missing", "ambiguous"}
          /\ co.par => co.wts = co.hwts
          /\ \A k \in Key : mine[k] # NoIntent =>
               /\ k \in co.keys /\ intent[k] = NoIntent
               /\ mine[k] = [epoch |-> co.epoch, ts |-> co.hwts]
      BY <2>2 DEF IInv, CommittedInv
    <3>2. \A p \in outcomes' : p.st = "COMMITTED" => p.epoch = co.epoch /\ p.ts = co.hwts
      BY <2>2 DEF IInv, CommittedInv
    <3>3. \/ /\ record.st = "COMMITTED" /\ record.epoch = co.epoch /\ record.ts = co.hwts
             /\ \A k \in co.keys : mine[k] # NoIntent \/ Found(k, co.epoch, co.hwts)
             /\ co.keys \subseteq record.locks /\ record.locks # {}
             /\ \A k \in cleaned : k \in co.keys => mine[k] # NoIntent
             /\ cleaned # {} => \E p \in outcomes' : p.st = "COMMITTED"
             /\ \A p \in outcomes' : p.st # "ABORTED"
          \/ /\ \/ record.st = "none" /\ tombstone
                \/ record.st = "ABORTED" /\ co.told = "ambiguous"
             /\ \A k \in co.keys : mine[k] # NoIntent
      BY <2>2 DEF IInv, CommittedInv
    <3> QED
      BY <1>1, <3>1, <3>2, <3>3 DEF CommittedInv, Found
  <2> QED
    BY <2>1, <2>2
<1>11. AckInv'
  BY <1>1, <1>3 DEF IInv, AckInv, Alive, Found
<1> QED
  BY <1>1, <1>4, <1>5, <1>6, <1>7, <1>8, <1>9, <1>10, <1>11 DEF IInv

LEMMA PushAnswersKeeps ==
  ASSUME IInv, TypeOK', PushInv', UNCHANGED <<co, net>>, NEW m \in seen, PushAnswers(m),
         UNCHANGED <<intent, version, tscache, mine, seen, cleaned, recovery>>
  PROVE  IInv'
<1>1. PICK o \in Reply :
        /\ outcomes' = outcomes \cup {o}
        /\ \/ /\ record.st \in {"PENDING", "STAGING", "COMMITTED"}
              /\ o = [st |-> record.st, epoch |-> record.epoch, ts |-> record.ts]
           \/ /\ record.st = "none" /\ ~tombstone
              /\ o.st = "PENDING" /\ o.epoch = m.epoch /\ o.ts <= pushMark'
           \/ /\ record.st = "ABORTED" \/ (record.st = "none" /\ tombstone)
              /\ o = AbortedReply
  BY DEF PushAnswers
<1>2. /\ UNCHANGED <<record, tombstone>> /\ o.epoch <= co.epoch
      /\ o.st = "COMMITTED" =>
           record.st = "COMMITTED" /\ o.epoch = record.epoch /\ o.ts = record.ts
      /\ o.st = "ABORTED" => record.st = "ABORTED" \/ (record.st = "none" /\ tombstone)
  BY <1>1, Fields, SMT, Z3 DEF PushAnswers, AbortedReply, IInv, EpochInv
<1>3. PICK O : O = {o}
  OBVIOUS
<1>4. \A p \in O :
        /\ p.epoch <= co.epoch
        /\ p.st = "COMMITTED" =>
             record.st = "COMMITTED" /\ p.epoch = record.epoch /\ p.ts = record.ts
        /\ p.st = "ABORTED" => record.st = "ABORTED" \/ (record.st = "none" /\ tombstone)
  BY <1>2, <1>3
<1>5. /\ UNCHANGED co /\ net' \subseteq net /\ (\A q \in net \ net' : q.type = "end")
      /\ UNCHANGED <<record, tombstone, intent, tscache, mine, seen, cleaned, recovery>>
      /\ outcomes' = outcomes \cup O
  BY <1>1, <1>2, <1>3
<1> QED
  BY <1>4, <1>5, AnswersKeep

LEMMA PushKeepsIInv ==
  ASSUME IInv, TypeOK', PushInv', UNCHANGED <<co, net>>, NEW m \in seen,
         NEW type \in {"abort", "timestamp"}, NEW to \in TS, PushTxn(m, type, to)
  PROVE  IInv'
<1>1. m \in Written /\ to \in Nat /\ m.epoch \in Nat /\ record.epoch \in Nat /\ co.epoch \in Nat
  BY MaxTSAssumption, Fields, SMT, Z3 DEF IInv, TS
<1>2. /\ UNCHANGED <<intent, version, tscache, mine, seen, cleaned, recovery>>
      /\ PushAnswers(m) \/ PushAborts(m) \/ PushMoves(m)
  BY <1>1, PushTxnFacts DEF IInv, TypeOK, PushInv
<1>3. CASE PushAnswers(m)
  BY <1>2, <1>3, PushAnswersKeeps
<1>4. m.epoch <= co.epoch /\ record.epoch <= co.epoch /\ 0 <= co.epoch
  BY <1>1, SMT, Z3 DEF IInv, EpochInv
<1>5. MayPush(m) /\ record.st = "STAGING" => Dead
  BY BetterPusherSeesDead DEF MayPush
<1>6. CASE PushAborts(m)
  <2>1. /\ NotFinal /\ ~NotFinal' /\ record'.st \notin {"STAGING", "COMMITTED"}
        /\ record'.epoch <= co.epoch /\ (record.st = "STAGING" => Dead)
    BY <1>4, <1>5, <1>6 DEF PushAborts, MayPush, NotFinal
  <2>2. outcomes' = outcomes \cup {AbortedReply} /\ AbortedReply.st = "ABORTED" /\ AbortedReply.epoch = 0
    BY <1>6 DEF PushAborts, AbortedReply
  <2> QED
    BY <1>2, <1>4, <2>1, <2>2, UnstagedKeeps
<1>7. CASE PushMoves(m)
  <2>1. /\ NotFinal /\ record'.st = "PENDING"
        /\ record'.epoch <= co.epoch /\ (record.st = "STAGING" => Dead)
    BY <1>4, <1>5, <1>7 DEF PushMoves, MayPush, NotFinal
  <2> DEFINE o == [st |-> "PENDING", epoch |-> record'.epoch, ts |-> record'.ts]
  <2>2. outcomes' = outcomes \cup {o} /\ o.st = "PENDING" /\ o.epoch = record'.epoch
    BY <1>7 DEF PushMoves
  <2> HIDE DEF o
  <2> QED
    BY <1>2, <2>1, <2>2, UnstagedKeeps
<1> QED
  BY <1>2, <1>3, <1>6, <1>7

LEMMA RecoverKeepsIInv ==
  ASSUME IInv, TypeOK', PushInv', UNCHANGED <<co, net>>, NEW r \in Recoverer, RecoverTxn(r)
  PROVE  IInv'
<1> DEFINE v == recovery[r]
<1>1. /\ UNCHANGED <<pushMark, intent, version, tscache, mine, seen, outcomes, cleaned>>
      /\ Probed(v) /\ recovery' = [recovery EXCEPT ![r] = Idle]
      /\ \/ UNCHANGED <<record, tombstone>>
         \/ /\ record.st = "STAGING" /\ ~v.changed /\ CanRecover(v)
            /\ record'.st = IF v.missed THEN "ABORTED" ELSE "COMMITTED"
            /\ record'.epoch = record.epoch /\ record'.ts = record.ts
            /\ record'.locks = record.locks \cup record.writes /\ tombstone'
  BY RecoverTxnKeeps DEF IInv, TypeOK
<1>2. \A p \in Recoverer : recovery'[p] = recovery[p] \/ recovery'[p].pc = "idle"
  BY <1>1 DEF IInv, TypeOK, ServerTypeOK, Idle
<1>3. /\ v.epoch \in Nat /\ v.ts \in Nat /\ v.missed \in BOOLEAN /\ v.todo = {} /\ v.pc = "probe"
      /\ co.epoch \in Nat /\ record.epoch \in Nat /\ record.ts \in Nat
  BY <1>1, Fields DEF IInv, TypeOK, ServerTypeOK, Recovery, Probed
<1>4. Probing(v)
  BY <1>3 DEF IInv, RecoveryInv
<1> HIDE DEF v
<1>5. CASE UNCHANGED <<record, tombstone>>
  <2>1. \A k \in Key : tscache[k] <= tscache'[k]
    BY <1>1, Fields, SMT, Z3 DEF IInv
  <2>2. /\ CoInv' /\ NetInv' /\ EpochInv' /\ Landed' /\ NoticeInv' /\ StagingInv'
        /\ FinalInv' /\ CommittedInv' /\ AckInv' /\ Shrinks
        /\ OnWay' = OnWay /\ Continues /\ Committed' = Committed
    BY <1>1, <1>5, <2>1, AsideKeepsRest
  <2>3. RecoveryInv'
    BY <1>1, <1>2, <1>5, <2>2, RecoveriesKept DEF Found, NeverCommits, NotFinal
  <2> QED
    BY <2>2, <2>3 DEF IInv
<1>6. CASE /\ record.st = "STAGING" /\ CanRecover(v) /\ v.missed
           /\ record'.st = "ABORTED" /\ record'.epoch = record.epoch
  <2>1. Dead
    <3> SUFFICES ASSUME ~(Superseded(co, record.epoch, record.ts) /\ Dead)
                 PROVE  Dead
      OBVIOUS
    <3>1. Current(co, record.epoch, record.ts) /\ record.writes = co.keys
      BY <1>6 DEF IInv, StagingInv
    <3>2. DeadBatch
      BY <1>3, <1>4, <1>6, <3>1, SMT, Z3 DEF Probing, CanRecover, Superseded, Current
    <3> QED
      BY <3>1, <3>2 DEF Dead, DeadBatch, Current
  <2>2. NotFinal /\ record'.epoch <= co.epoch
    BY <1>6 DEF NotFinal, IInv, EpochInv
  <2> QED
    BY <1>1, <1>2, <1>6, <2>1, <2>2, UnstagedKeeps
<1>7. CASE /\ record.st = "STAGING" /\ CanRecover(v) /\ ~v.missed
           /\ record'.st = "COMMITTED" /\ record'.epoch = record.epoch /\ record'.ts = record.ts
           /\ record'.locks = record.locks \cup record.writes
  <2>1. ~Committed /\ ~NeverCommits
    BY <1>7 DEF IInv, FinalInv, NotFinal, NeverCommits
  <2>2. \A k \in record.writes : Found(k, record.epoch, record.ts)
    BY <1>3, <1>4, <1>7, <2>1 DEF Probing, Informed
  <2>3. ~Dead
    BY <2>2 DEF Dead, Alive, Possible, Found
  <2>4. Current(co, record.epoch, record.ts) /\ ~Unevaluated /\ record.writes = co.keys
    BY <1>7, <2>3 DEF IInv, StagingInv
  <2>5. \A k \in co.keys : Found(k, co.epoch, co.hwts)
    BY <2>2, <2>4 DEF Current
  <2> QED
    BY <1>1, <1>2, <1>7, <2>4, <2>5, CommittedKeeps
<1> QED
  BY <1>1, <1>3, <1>5, <1>6, <1>7

LEMMA GCKeepsIInv ==
  ASSUME IInv, TypeOK', PushInv', UNCHANGED <<co, net>>, GCTxnRecord
  PROVE  IInv'
<1>1. /\ Finalized(record.st) /\ record.locks \subseteq cleaned /\ record' = NoRecord /\ cleaned' = {}
      /\ UNCHANGED <<tombstone, intent, tscache, mine, seen, outcomes, recovery>>
  BY DEF GCTxnRecord
<1>2. /\ CoInv' /\ NetInv' /\ OnWay' = OnWay /\ Continues
      /\ (Unevaluated' => Unevaluated) /\ Doomed' = Doomed /\ Concurrent' = Concurrent
  BY CoordinatorIdle DEF IInv
<1>3. Shrinks
  <2>1. \A k \in Key : tscache[k] \in Nat
    BY Fields DEF IInv
  <2>2. \A k \in Key : tscache[k] <= tscache'[k]
    BY <1>1, <2>1, SMT, Z3
  <2> QED
    BY <1>1, <1>2, <2>2, ShrinkFrame DEF IInv
<1>4. record'.st = "none" /\ record'.epoch = 0 /\ tombstone
  BY <1>1, NoRecordFacts DEF IInv, PushInv
<1>5. ~NotFinal /\ ~NotFinal' /\ DeadBatch' = DeadBatch /\ record.st # "STAGING"
  BY <1>1, <1>2, <1>4 DEF NotFinal, DeadBatch, Alive, Finalized
<1>6. Committed =>
        \/ /\ record.st = "COMMITTED" /\ co.keys \subseteq record.locks
           /\ record.locks # {} /\ \A k \in cleaned : k \in co.keys => mine[k] # NoIntent
           /\ cleaned # {} => \E o \in outcomes : o.st = "COMMITTED"
        \/ record.st = "ABORTED" /\ \A k \in co.keys : mine[k] # NoIntent
  BY <1>1 DEF IInv, CommittedInv, Finalized
<1>7. Committed' = Committed /\ (Committed => \A k \in co.keys : mine[k] # NoIntent)
  BY <1>1, <1>4, <1>6 DEF Committed
<1>8. RecoveryInv'
  BY <1>1, <1>2, <1>3, <1>5, <1>7, RecoveriesKept DEF NeverCommits
<1>9. EpochInv'
  <2>1. co.epoch \in Nat
    BY Fields DEF IInv
  <2>2. record'.epoch <= co'.epoch
    BY <1>4, <2>1, SMT, Z3
  <2> QED
    BY <1>1, <1>2, <1>5, <2>2 DEF IInv, EpochInv
<1>10. Landed'
  BY <1>1, <1>2, <1>5 DEF IInv, Landed
<1>11. NoticeInv'
  BY <1>1, <1>2, <1>4, <1>5, <1>7 DEF IInv, NoticeInv
<1>12. StagingInv' /\ FinalInv'
  BY <1>1, <1>4, <1>5 DEF StagingInv, FinalInv
<1>13. CommittedInv'
  BY <1>1, <1>2, <1>4, <1>7 DEF IInv, CommittedInv
<1>14. AckInv'
  BY <1>1, <1>2, <1>5, <1>7 DEF IInv, AckInv, Alive
<1> QED
  BY <1>2, <1>8, <1>9, <1>10, <1>11, <1>12, <1>13, <1>14 DEF IInv

\* What ResolveIntent changes: the intent on k, and what it becomes.
Resolved(k, o) ==
  /\ UNCHANGED <<co, net, record, tombstone, pushMark, tscache, outcomes, recovery>>
  /\ \A j \in Key \ {k} : intent'[j] = intent[j]
  /\ cleaned' = IF Finalized(record.st) /\ o = Outcome(record) THEN cleaned \cup {k}
                ELSE cleaned

LEMMA ResolvedFrame ==
  ASSUME IInv, TypeOK', NEW k \in Key, NEW o \in outcomes, Resolved(k, o),
         \/ intent'[k] = NoIntent
         \/ intent'[k].epoch = intent[k].epoch /\ intent[k].ts <= intent'[k].ts
  PROVE  /\ CoInv' /\ NetInv' /\ OnWay' = OnWay /\ Continues
         /\ (Unevaluated' => Unevaluated) /\ Doomed' = Doomed /\ Concurrent' = Concurrent
         /\ Shrinks /\ (Dead => Dead') /\ (DeadBatch => DeadBatch') /\ NotFinal' = NotFinal
         /\ \A j \in co.keys : ~Alive(j, co.epoch, co.hwts)
              => ~Possible(intent', tscache', OnWay', j, co.epoch, co.hwts)
         /\ FinalInv => (~Finalized(record.st) => cleaned' = {})
         /\ Finalized(record.st) /\ o = Outcome(record) => o.st = record.st
<1>1. /\ CoInv' /\ NetInv' /\ OnWay' = OnWay /\ Continues
      /\ (Unevaluated' => Unevaluated) /\ Doomed' = Doomed /\ Concurrent' = Concurrent
  BY CoordinatorIdle DEF IInv, Resolved
<1>2. Shrinks
  <2>1. \A j \in Key : tscache[j] <= tscache'[j]
    BY Fields, SMT, Z3 DEF IInv, Resolved
  <2>2. \A j \in Key : \/ intent'[j] = intent[j] \/ intent'[j] = NoIntent
                       \/ intent'[j].epoch = intent[j].epoch /\ intent[j].ts <= intent'[j].ts
    BY DEF Resolved
  <2> QED
    BY <1>1, <2>1, <2>2, ShrinkFrame DEF IInv
<1>3. (Dead => Dead') /\ (DeadBatch => DeadBatch') /\ NotFinal' = NotFinal
  BY <1>2, StaysDead DEF IInv, Resolved, NotFinal
<1>4. \A j \in co.keys : ~Alive(j, co.epoch, co.hwts)
        => ~Possible(intent', tscache', OnWay', j, co.epoch, co.hwts)
  BY <1>2, Fields DEF IInv, Shrinks, Alive
<1>5. /\ FinalInv => (~Finalized(record.st) => cleaned' = {})
      /\ Finalized(record.st) /\ o = Outcome(record) => o.st = record.st
  BY SMT, Z3 DEF Resolved, FinalInv, Outcome
<1> QED
  BY <1>1, <1>2, <1>3, <1>4, <1>5

\* An intent that is removed or moved is not one that a commit still needs: the
\* transaction is aborted, or the intent is not of the commit, or is still below it.
LEMMA Harmless ==
  ASSUME IInv, TypeOK', NEW k \in Key, NEW o \in outcomes, Resolved(k, o),
         Removed(k, o) \/ Moved(k, o),
         \/ Committed /\ record.st = "COMMITTED"
         \/ record.st = "STAGING" /\ ~Dead
  PROVE  \A j \in Key : Found(j, co.epoch, co.hwts) =>
           intent'[j].epoch = co.epoch /\ intent'[j].ts <= co.hwts
<1> SUFFICES ASSUME Found(k, co.epoch, co.hwts)
             PROVE  intent'[k].epoch = co.epoch /\ intent'[k].ts <= co.hwts
  BY DEF Resolved, Found
<1>1. /\ co.epoch \in Nat /\ co.hwts \in Nat /\ intent[k].ts \in Nat /\ intent[k].epoch = co.epoch
      /\ intent[k].ts <= co.hwts /\ intent[k] # NoIntent /\ o.epoch \in Nat /\ o.ts \in Nat
      /\ o.epoch <= co.epoch
  BY Fields, NoIntentFacts, SMT, Z3 DEF IInv, Found, EpochInv
<1>2. o.st # "ABORTED" /\ record.ts = co.hwts
  <2>1. CASE Committed /\ record.st = "COMMITTED"
    BY <2>1 DEF IInv, CommittedInv
  <2>2. CASE record.st = "STAGING" /\ ~Dead
    BY <2>2 DEF IInv, FinalInv, NotFinal, StagingInv, Current
  <2> QED
    BY <2>1, <2>2
<1>3. o.ts <= co.hwts
  BY <1>2 DEF IInv, PushInv
<1>4. CASE Removed(k, o)
  <2>1. o.st = "COMMITTED" => o.epoch = co.epoch /\ o.ts = co.hwts
    BY DEF IInv, CommittedInv, Committed
  <2> QED
    BY <1>1, <1>2, <1>4, <2>1, SMT, Z3 DEF Removed, Found
<1>5. CASE Moved(k, o)
  BY <1>1, <1>3, <1>5 DEF Moved
<1> QED
  BY <1>4, <1>5

LEMMA RemovedOrMovedKeeps ==
  ASSUME IInv, TypeOK', PushInv', NEW k \in Key, NEW o \in outcomes, Resolved(k, o),
         Removed(k, o) \/ Moved(k, o)
  PROVE  IInv'
<1>1. /\ CoInv' /\ NetInv' /\ OnWay' = OnWay /\ Continues
      /\ (Unevaluated' => Unevaluated) /\ Doomed' = Doomed /\ Concurrent' = Concurrent
      /\ Shrinks /\ (Dead => Dead') /\ (DeadBatch => DeadBatch') /\ NotFinal' = NotFinal
      /\ \A j \in co.keys : ~Alive(j, co.epoch, co.hwts)
           => ~Possible(intent', tscache', OnWay', j, co.epoch, co.hwts)
      /\ FinalInv => (~Finalized(record.st) => cleaned' = {})
      /\ Finalized(record.st) /\ o = Outcome(record) => o.st = record.st
  BY ResolvedFrame DEF Removed, Moved
<1>2. /\ UNCHANGED <<co, net, record, tombstone, outcomes, mine>> /\ Committed' = Committed
      /\ UNCHANGED recovery
  BY DEF Resolved, Removed, Moved, Committed
<1>3. /\ co.epoch \in Nat /\ o.epoch \in Nat /\ o.epoch <= co.epoch /\ NoIntent.epoch = -1
      /\ \A j \in Key : intent[j].epoch \in Int /\ intent'[j].epoch \in Int
  BY Fields, NoIntentFacts DEF IInv, EpochInv, TypeOK, ServerTypeOK
<1>4. \A j \in Key : intent'[j] = NoIntent \/ intent'[j].epoch = intent[j].epoch
  BY DEF Resolved, Removed, Moved
<1>5. RecoveryInv'
  <2>1. record.st = "STAGING" /\ ~Dead => record.epoch = co.epoch /\ record.ts = co.hwts
    BY DEF IInv, StagingInv, Current
  <2>2. \/ \A j \in record.writes : Found(j, record.epoch, record.ts) =>
             intent'[j].epoch = record.epoch /\ intent'[j].ts <= record.ts
        \/ record.st # "STAGING" \/ Dead
    BY <2>1, Harmless, Fields DEF IInv
  <2> QED
    BY <1>1, <1>2, <2>2, RecoveriesKept DEF NeverCommits
<1>6. EpochInv'
  <2>1. \A j \in Key : /\ intent'[j].epoch = co.epoch => j \in co.keys
                       /\ intent'[j] # NoIntent => intent'[j] \in seen'
    BY <1>3, <1>4, SMT, Z3 DEF IInv, EpochInv, Resolved, Removed, Moved
  <2>2. \A m \in seen :
          /\ m.epoch <= co.epoch
          /\ \/ m.ts <= co.wts
             \/ \E p \in outcomes : p.st # "ABORTED" /\ m.ts <= p.ts
             \/ Doomed' /\ IF Concurrent' THEN DeadBatch' ELSE ~co.ended
    BY <1>1 DEF IInv, EpochInv
  <2>3. \A m \in seen' :
          /\ m.epoch <= co.epoch
          /\ \/ m.ts <= co.wts
             \/ \E p \in outcomes : p.st # "ABORTED" /\ m.ts <= p.ts
             \/ Doomed' /\ IF Concurrent' THEN DeadBatch' ELSE ~co.ended
    <3>1. CASE Removed(k, o)
      BY <2>2, <3>1 DEF Removed
    <3>2. CASE Moved(k, o)
      <4>1. intent[k] \in seen /\ o.st # "ABORTED" /\ o.ts <= o.ts
        BY <3>2, Fields, SMT, Z3 DEF Moved, Finalized, IInv, EpochInv
      <4> QED
        BY <2>2, <3>2, <4>1 DEF Moved
    <3> QED
      BY <3>1, <3>2
  <2> QED
    BY <1>2, <2>1, <2>3 DEF IInv, EpochInv
<1>7. Landed'
  <2>1. ASSUME NotFinal, NEW j \in Key, intent[j].epoch = co.epoch
        PROVE  intent'[j].epoch = co.epoch
    <3>1. o.st # "ABORTED" /\ o.st # "COMMITTED"
      BY <2>1 DEF IInv, FinalInv, Committed
    <3> QED
      BY <1>3, <2>1, <3>1, NoIntentFacts, SMT, Z3 DEF Resolved, Removed, Moved
  <2>2. \A q \in OnWay : q.key \in Key
    BY OnWayTypes DEF IInv
  <2>3. /\ NotFinal
        /\ \/ co.pc = "commit" /\ ~Final(co.err) /\ co.qerr = "none"
           \/ co.ended /\ ~Concurrent
        => \A j \in co.keys : \/ <<"put", j>> \in co.pend \/ <<"query", j>> \in co.pend
                              \/ intent'[j].epoch = co.epoch
    BY <2>1, Clocks DEF IInv, Landed
  <2>4. co.par => \A q \in OnWay : intent'[q.key].epoch < co.epoch
    BY <1>3, <1>4, <2>2, SMT, Z3 DEF IInv, Landed
  <2> QED
    BY <1>1, <1>2, <2>3, <2>4 DEF Landed, Final
<1>8. NoticeInv'
  BY <1>1, <1>2 DEF IInv, NoticeInv
<1>9. StagingInv'
  BY <1>1, <1>2 DEF IInv, StagingInv
<1>10. FinalInv'
  BY <1>1, <1>2 DEF IInv, FinalInv
<1>11. CommittedInv'
  <2>1. CASE ~Committed
    BY <1>2, <2>1 DEF CommittedInv
  <2>2. CASE Committed /\ record.st # "COMMITTED"
    <3>1. \A j \in Key : mine[j] # NoIntent => intent'[j] = NoIntent
      BY <2>2 DEF IInv, CommittedInv, Resolved, Removed, Moved
    <3> QED
      BY <1>1, <1>2, <2>2, <3>1 DEF IInv, CommittedInv
  <2>3. CASE Committed /\ record.st = "COMMITTED"
    <3>1. \A j \in Key : Found(j, co.epoch, co.hwts) =>
            intent'[j].epoch = co.epoch /\ intent'[j].ts <= co.hwts
      BY <2>3, Harmless
    <3>2. \A j \in Key : mine[j] # NoIntent => intent'[j] = NoIntent
      BY <2>3 DEF IInv, CommittedInv, Resolved, Removed, Moved
    <3>3. /\ \A j \in cleaned' : j \in co.keys => mine[j] # NoIntent
          /\ cleaned' # {} => \E p \in outcomes : p.st = "COMMITTED"
      <4>1. CASE cleaned' = cleaned
        BY <2>3, <4>1 DEF IInv, CommittedInv
      <4>2. CASE cleaned' = cleaned \cup {k} /\ o = Outcome(record)
        <5>1. o.st = "COMMITTED" /\ o.epoch = co.epoch /\ o.ts = co.hwts
          BY <1>1, <2>3, <4>2 DEF IInv, CommittedInv, Finalized
        <5>2. Removed(k, o)
          BY <5>1 DEF Moved, Finalized
        <5>3. ~Found(k, co.epoch, co.hwts)
          BY <1>3, <5>1, <5>2, NoIntentFacts, SMT, Z3 DEF Removed, Found
        <5>4. k \in co.keys => mine[k] # NoIntent
          BY <2>3, <5>3 DEF IInv, CommittedInv
        <5> QED
          BY <2>3, <4>2, <5>1, <5>4 DEF IInv, CommittedInv
      <4> QED
        BY <4>1, <4>2 DEF Resolved
    <3>4. co.keys \subseteq Key
      BY Fields DEF IInv
    <3> QED
      BY <1>1, <1>2, <2>3, <3>1, <3>2, <3>3, <3>4 DEF IInv, CommittedInv, Found
  <2> QED
    BY <2>1, <2>2, <2>3 DEF IInv, CommittedInv
<1>12. AckInv'
  <2>1. ASSUME co.told = "committed", ~Committed
        PROVE  \A j \in co.keys : intent'[j].epoch = co.epoch /\ intent'[j].ts <= co.hwts
    <3>1. /\ co.par /\ record.st = "STAGING" /\ record.epoch = co.epoch
          /\ \A j \in co.keys : Found(j, co.epoch, co.hwts)
      BY <2>1 DEF IInv, AckInv
    <3>2. record.writes = co.keys /\ record.ts = co.hwts
      BY <3>1, Fields, SMT, Z3 DEF IInv, StagingInv, Superseded, Current
    <3>3. ~Dead
      BY <3>1, <3>2 DEF Dead, Alive, Possible, Found
    <3> QED
      BY <3>1, <3>3, Harmless, Fields DEF IInv
  <2> QED
    BY <1>1, <1>2, <2>1 DEF IInv, AckInv, Alive, Found
<1> QED
  BY <1>1, <1>5, <1>6, <1>7, <1>8, <1>9, <1>10, <1>11, <1>12 DEF IInv

LEMMA InstalledKeeps ==
  ASSUME IInv, TypeOK', PushInv', NEW k \in Key, NEW o \in outcomes, Resolved(k, o), Installed(k, o)
  PROVE  IInv'
<1>1. /\ CoInv' /\ NetInv' /\ OnWay' = OnWay /\ Continues
      /\ (Unevaluated' => Unevaluated) /\ Doomed' = Doomed /\ Concurrent' = Concurrent
      /\ Shrinks /\ (Dead => Dead') /\ (DeadBatch => DeadBatch') /\ NotFinal' = NotFinal
      /\ FinalInv => (~Finalized(record.st) => cleaned' = {})
  BY ResolvedFrame DEF Installed
<1>2. /\ UNCHANGED <<co, net, record, tombstone, outcomes, recovery, seen>>
      /\ intent'[k] = NoIntent /\ o.st = "COMMITTED"
      /\ Committed /\ Committed' /\ ~NotFinal
  BY DEF Resolved, Installed, Committed, IInv, FinalInv
<1>3. /\ o.epoch = co.epoch /\ o.ts = co.hwts /\ k \in co.keys
      /\ mine'[k] = [epoch |-> co.epoch, ts |-> co.hwts]
      /\ mine'[k] # NoIntent
      /\ \A j \in Key \ {k} : mine'[j] = mine[j]
      /\ \A j \in Key \ {k} : intent'[j] = intent[j]
  <2>1. o.epoch = co.epoch /\ o.ts = co.hwts
    BY <1>2 DEF IInv, CommittedInv
  <2>2. k \in co.keys
    BY <2>1 DEF IInv, EpochInv, Installed
  <2>3. mine' = [mine EXCEPT ![k] = [epoch |-> co.epoch, ts |-> co.hwts]]
    BY <2>1 DEF Installed
  <2>4. [epoch |-> co.epoch, ts |-> co.hwts] \in Written
    BY Fields DEF IInv, Written
  <2> QED
    BY <2>1, <2>2, <2>3, <2>4, NoIntentFacts DEF IInv, TypeOK, ServerTypeOK, Resolved
<1>4. NoIntent.epoch = -1 /\ co.epoch \in Nat /\ co.keys \subseteq Key
  BY Fields, NoIntentFacts DEF IInv
<1>5. RecoveryInv'
  BY <1>1, <1>2, RecoveriesKept DEF NeverCommits
<1>6. EpochInv'
  <2>1. \A j \in Key : /\ intent'[j].epoch = co.epoch => j \in co.keys
                       /\ intent'[j] # NoIntent => intent'[j] \in seen
    BY <1>2, <1>3, <1>4 DEF IInv, EpochInv
  <2> QED
    BY <1>1, <1>2, <2>1 DEF IInv, EpochInv
<1>7. Landed'
  <2>1. OnWay' = {}
    BY <1>1, <1>2 DEF IInv, CommittedInv
  <2> QED
    BY <1>1, <1>2, <2>1 DEF Landed
<1>8. NoticeInv'
  BY <1>1, <1>2 DEF IInv, NoticeInv
<1>9. StagingInv' /\ AckInv'
  BY <1>1, <1>2 DEF IInv, StagingInv, AckInv, NotFinal
<1>10. FinalInv'
  BY <1>1, <1>2 DEF IInv, FinalInv
<1>11. CommittedInv'
  <2>1. \A j \in Key : mine'[j] # NoIntent =>
          /\ j \in co.keys /\ intent'[j] = NoIntent
          /\ mine'[j] = [epoch |-> co.epoch, ts |-> co.hwts]
    BY <1>2, <1>3 DEF IInv, CommittedInv
  <2>2. \A j \in Key : mine[j] # NoIntent => mine'[j] # NoIntent
    BY <1>3
  <2>3. ASSUME record.st = "COMMITTED"
        PROVE  /\ \A j \in co.keys : \/ mine'[j] # NoIntent
                                     \/ intent'[j].epoch = co.epoch /\ intent'[j].ts <= co.hwts
               /\ \A j \in cleaned' : j \in co.keys => mine'[j] # NoIntent
               /\ cleaned' # {} => \E p \in outcomes : p.st = "COMMITTED"
    BY <1>2, <1>3, <1>4, <2>2, <2>3 DEF IInv, CommittedInv, Found, Resolved
  <2> QED
    BY <1>1, <1>2, <1>4, <2>1, <2>2, <2>3 DEF IInv, CommittedInv, Found
<1> QED
  BY <1>1, <1>5, <1>6, <1>7, <1>8, <1>9, <1>10, <1>11 DEF IInv

LEMMA ResolveKeepsIInv ==
  ASSUME IInv, TypeOK', PushInv', UNCHANGED <<co, net>>, NEW k \in Key, NEW o \in outcomes,
         ResolveIntent(k, o)
  PROVE  IInv'
<1>1. Resolved(k, o) /\ (Removed(k, o) \/ Installed(k, o) \/ Moved(k, o))
  BY ResolveIntentKeeps DEF IInv, TypeOK, Resolved
<1> QED
  BY <1>1, RemovedOrMovedKeeps, InstalledKeeps

=============================================================================
