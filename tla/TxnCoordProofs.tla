-------------------------- MODULE TxnCoordProofs ----------------------------
(***************************************************************************)
(* The steps that the coordinator takes by itself keep the invariant IInv  *)
(* of module TxnCommitProofs.                                              *)
(***************************************************************************)
EXTENDS TxnCommitProofs

\* Leaves are first-order unless they cite SMT.
USE ZenonT(60)

-----------------------------------------------------------------------------
(***************************************************************************)
(* Steps of the coordinator alone.                                         *)
(***************************************************************************)

\* An RPC breaks and is given up.
LEMMA LoseEffect ==
  ASSUME IInv, ~ResendLost, NEW x \in co.pend, Lose(x)
  PROVE  /\ SameBatch /\ co.pc = "commit" /\ UNCHANGED server
         /\ co'.pend = co.pend \ {x} /\ co'.wts = co.wts /\ co'.qerr = co.qerr /\ co'.staged = co.staged
         /\ co'.err \in {co.err, "ambiguous", "error"} /\ Final(co'.err)
         /\ co'.err = "error" => ~co.ended
         /\ co.ended /\ ~Concurrent => x = End
         /\ \/ x = End /\ net' = net \cup {CommitRequest}
            \/ \E k \in co.keys : x = <<"put", k>> /\ net' = net \cup {PutRequest(k, co.hrts, co.hwts)}
            \/ \E k \in co.keys : x = <<"query", k>> /\ UNCHANGED net
<1>1. co.pc = "commit" /\ UNCHANGED server
  BY DEF Lose
<1>2. /\ co \in Coord /\ co.err \in Error
      /\ co.pend \subseteq Puts(co.batch) \cup Queries(co.piped) \cup {End}
      /\ co.keys = co.piped \cup co.batch /\ (co.ended /\ ~Concurrent => x = End)
      /\ (co.err = "error" => ~co.ended)
  BY <1>1, Fields DEF IInv, TypeOK, CoInv
<1>3. PICK g \in {"ambiguous", "error"} : g = IF Concurrent \/ x = End THEN "ambiguous" ELSE "error"
  OBVIOUS
<1>4. co' = [co EXCEPT !.pend = @ \ {x}, !.err = MergeErr(@, g)]
  BY <1>3 DEF Lose
<1>5. /\ SameBatch /\ co'.pend = co.pend \ {x} /\ co'.wts = co.wts /\ co'.qerr = co.qerr
      /\ co'.staged = co.staged /\ co'.err = MergeErr(co.err, g)
  BY <1>2, <1>4 DEF SameBatch, Coord
<1>6. co'.err \in {co.err, g} /\ Final(co'.err)
  BY <1>2, <1>3, <1>5, SMT, Z3 DEF MergeErr, Priority, Final, Error
<1>7. co'.err = "error" => ~co.ended
  BY <1>2, <1>3, <1>6
<1>8. \/ x = End /\ net' = net \cup {CommitRequest}
      \/ \E k \in co.keys : x = <<"put", k>> /\ net' = net \cup {PutRequest(k, co.hrts, co.hwts)}
      \/ \E k \in co.keys : x = <<"query", k>> /\ UNCHANGED net
  <2>1. CASE x = End
    <3>1. x[1] # "put"
      BY <2>1 DEF End
    <3> QED
      BY <2>1, <3>1 DEF Lose
  <2>2. ASSUME NEW k \in co.keys, x = <<"put", k>>
        PROVE  net' = net \cup {PutRequest(k, co.hrts, co.hwts)}
    <3>1. x # End /\ x[1] = "put" /\ x[2] = k
      BY <2>2, Requests
    <3> QED
      BY <3>1 DEF Lose
  <2>3. ASSUME NEW k \in co.keys, x = <<"query", k>>
        PROVE  UNCHANGED net
    <3>1. x # End /\ x[1] # "put"
      BY <2>3, Requests
    <3> QED
      BY <3>1 DEF Lose
  <2>4. x = End \/ (\E k \in co.keys : x = <<"put", k>>) \/ (\E k \in co.keys : x = <<"query", k>>)
    BY <1>2 DEF Puts, Queries
  <2> QED
    BY <2>1, <2>2, <2>3, <2>4
<1> QED
  BY <1>1, <1>2, <1>3, <1>5, <1>6, <1>7, <1>8

LEMMA LoseKeepsIInv ==
  ASSUME IInv, TypeOK', PushInv', ~ResendLost, NEW x \in co.pend, Lose(x)
  PROVE  IInv'
<1>1. /\ SameBatch /\ co.pc = "commit"
      /\ UNCHANGED <<record, tombstone, intent, tscache, mine, seen, outcomes, cleaned, recovery>>
      /\ co'.pend = co.pend \ {x} /\ co'.wts = co.wts /\ co'.qerr = co.qerr /\ co'.staged = co.staged
      /\ co'.err \in {co.err, "ambiguous", "error"} /\ Final(co'.err)
      /\ co'.err = "error" => ~co.ended
      /\ co.ended /\ ~Concurrent => x = End
  BY LoseEffect DEF server
<1>2. \/ x = End /\ net' = net \cup {CommitRequest}
      \/ \E k \in co.keys : x = <<"put", k>> /\ net' = net \cup {PutRequest(k, co.hrts, co.hwts)}
      \/ \E k \in co.keys : x = <<"query", k>> /\ UNCHANGED net
  BY LoseEffect
<1>3. /\ co'.epoch = co.epoch /\ co'.keys = co.keys /\ co'.hwts = co.hwts /\ co'.hrts = co.hrts
      /\ co'.par = co.par /\ co'.pc = co.pc /\ co'.ended = co.ended /\ co'.told = co.told
  BY <1>1 DEF SameBatch
<1>4. /\ CommitRequest.type = "end" /\ CommitRequest.commit
      /\ \A k : LET p == PutRequest(k, co.hrts, co.hwts)
                IN p.type = "put" /\ p.key = k /\ p.epoch = co.epoch
  BY DEF CommitRequest, PutRequest
<1>5. co.told = "none" /\ co.keys \subseteq Key /\ Concurrent' = Concurrent /\ CommitRequest' = CommitRequest
      /\ (End \in co.pend => co.ended)
  BY <1>1, SameRequests, Clocks DEF IInv, CoInv
<1>6. Unevaluated' = Unevaluated
  <2>1. CASE x = End /\ net' = net \cup {CommitRequest}
    BY <1>1, <1>3, <1>4, <1>5, <2>1 DEF Unevaluated
  <2>2. ASSUME NEW k \in co.keys, x = <<"put", k>>, net' = net \cup {PutRequest(k, co.hrts, co.hwts)}
        PROVE  Unevaluated' = Unevaluated
    <3>1. \A q \in net' : q.type = "end" => q \in net
      BY <1>4, <2>2
    <3>2. net \subseteq net' /\ (End \in co'.pend <=> End \in co.pend)
      BY <1>1, <2>2, Requests
    <3> QED
      BY <1>3, <3>1, <3>2 DEF Unevaluated
  <2>3. ASSUME NEW k \in co.keys, x = <<"query", k>>, UNCHANGED net
        PROVE  Unevaluated' = Unevaluated
    <3>1. End \in co'.pend <=> End \in co.pend
      BY <1>1, <2>3, Requests
    <3> QED
      BY <1>3, <2>3, <3>1 DEF Unevaluated
  <2> QED
    BY <1>2, <2>1, <2>2, <2>3
<1>7. OnWay' = OnWay
  <2>1. OnWay' = {PutRequest(k, co.hrts, co.hwts) : k \in {j \in Key : <<"put", j>> \in co'.pend}}
                   \cup {q \in net' : q.type = "put"}
    BY <1>1, SameRequests
  <2>2. CASE x = End /\ net' = net \cup {CommitRequest}
    <3>1. \A j \in Key : <<"put", j>> \in co'.pend <=> <<"put", j>> \in co.pend
      BY <1>1, <2>2, Requests
    <3>2. {q \in net' : q.type = "put"} = {q \in net : q.type = "put"}
      BY <1>4, <2>2
    <3> QED
      BY <2>1, <3>1, <3>2 DEF OnWay
  <2>3. ASSUME NEW k \in co.keys, x = <<"put", k>>, net' = net \cup {PutRequest(k, co.hrts, co.hwts)}
        PROVE  OnWay' = OnWay
    <3>1. \A j \in Key : <<"put", j>> \in co.pend <=> <<"put", j>> \in co'.pend \/ j = k
      BY <1>1, <2>3, Requests
    <3>2. {q \in net' : q.type = "put"} = {q \in net : q.type = "put"} \cup {PutRequest(k, co.hrts, co.hwts)}
      BY <1>4, <2>3
    <3> QED
      BY <1>5, <2>1, <3>1, <3>2 DEF OnWay
  <2>4. ASSUME NEW k \in co.keys, x = <<"query", k>>, UNCHANGED net
        PROVE  OnWay' = OnWay
    <3>1. \A j \in Key : <<"put", j>> \in co'.pend <=> <<"put", j>> \in co.pend
      BY <1>1, <2>4, Requests
    <3> QED
      BY <2>1, <2>4, <3>1 DEF OnWay
  <2> QED
    BY <1>2, <2>2, <2>3, <2>4
<1>8. CoInv'
  <2>1. co.ended /\ ~Concurrent => co'.err \in {co.err, "ambiguous"} /\ co'.pend = {}
    BY <1>1 DEF IInv, CoInv
  <2>2. co'.pend \subseteq co.pend /\ co'.err \notin {"none", "retry"}
    BY <1>1 DEF Final
  <2>3. CoInv
    BY DEF IInv
  <2> QED
    BY <1>1, <1>3, <1>5, <1>6, <2>1, <2>2, <2>3 DEF CoInv, SameBatch
<1>9. NetInv'
  <2>1. Doomed'
    BY <1>1, <1>3 DEF Doomed
  <2>2. \A q \in net : \/ /\ q.type = "put" /\ q.key \in co.keys /\ <<"put", q.key>> \notin co.pend
                          /\ (co.ended => Concurrent) /\ q.epoch = co.epoch
                       \/ q.type = "end" /\ q.commit /\ q = CommitRequest /\ co.ended /\ q.epoch = co.epoch
                          /\ End \notin co.pend
    BY <1>5 DEF IInv, NetInv, Abstract!Failed
  <2>3. \A q, p \in net : q.type = "put" /\ p.type = "put" /\ q.key = p.key => q = p
    BY DEF IInv, NetInv
  <2>4. CASE x = End /\ net' = net \cup {CommitRequest}
    <3>1. CommitRequest.epoch = co.epoch /\ co.ended /\ End \notin co'.pend
      BY <1>1, <1>5, <2>4 DEF CommitRequest
    <3>2. \A q \in net' : \/ /\ q.type = "put" /\ q.key \in co.keys /\ <<"put", q.key>> \notin co'.pend
                             /\ (co.ended => Concurrent) /\ q.epoch = co.epoch
                          \/ q.type = "end" /\ q.commit /\ q = CommitRequest /\ co.ended
                             /\ q.epoch = co.epoch /\ End \notin co'.pend
      BY <1>1, <1>4, <2>2, <2>4, <3>1
    <3>3. \A q, p \in net' : q.type = "put" /\ p.type = "put" /\ q.key = p.key => q = p
      BY <1>4, <2>3, <2>4
    <3> QED
      BY <1>3, <1>5, <2>1, <3>2, <3>3 DEF NetInv
  <2>5. ASSUME NEW k \in co.keys, x = <<"put", k>>, net' = net \cup {PutRequest(k, co.hrts, co.hwts)}
        PROVE  NetInv'
    <3>1. <<"put", k>> \notin co'.pend /\ (co.ended => Concurrent)
      BY <1>1, <2>5, Requests
    <3>2. \A q \in net' : \/ /\ q.type = "put" /\ q.key \in co.keys /\ <<"put", q.key>> \notin co'.pend
                             /\ (co.ended => Concurrent) /\ q.epoch = co.epoch
                          \/ q.type = "end" /\ q.commit /\ q = CommitRequest /\ co.ended
                             /\ q.epoch = co.epoch /\ End \notin co'.pend
      <4>1. PICK p : p = PutRequest(k, co.hrts, co.hwts)
        OBVIOUS
      <4>2. p.type = "put" /\ p.key = k /\ p.epoch = co.epoch
        BY <1>4, <4>1
      <4>3. net' = net \cup {p} /\ co'.pend \subseteq co.pend
        BY <1>1, <2>5, <4>1
      <4> QED
        BY <2>2, <3>1, <4>2, <4>3
    <3>3. \A q \in net : q.type = "put" => q.key # k
      BY <2>2, <2>5
    <3>4. \A q, p \in net' : q.type = "put" /\ p.type = "put" /\ q.key = p.key => q = p
      BY <1>4, <2>3, <2>5, <3>3, SMT, Z3
    <3> QED
      BY <1>3, <1>5, <2>1, <3>2, <3>4 DEF NetInv
  <2>6. CASE UNCHANGED net
    BY <1>1, <1>3, <1>5, <2>1, <2>2, <2>3, <2>6 DEF NetInv
  <2> QED
    BY <1>2, <2>4, <2>5, <2>6
<1>10. Continues
  BY <1>1, <1>3, <1>6 DEF Continues, Final
<1>11. Shrinks
  BY <1>1, <1>7, ShrinkFrame, Fields, SMT, Z3 DEF IInv
<1>12. Committed' = Committed /\ NotFinal' = NotFinal /\ (DeadBatch' = DeadBatch) /\ (Dead' = Dead)
  BY <1>1, <1>3, <1>7 DEF Committed, NotFinal, DeadBatch, Dead, Alive
<1>13. RecoveryInv'
  BY <1>1, <1>10, <1>11, <1>12, RecoveriesKept DEF Found, NeverCommits
<1>14. EpochInv'
  <2>1. Doomed'
    BY <1>1, <1>3 DEF Doomed
  <2> QED
    BY <1>1, <1>3, <1>5, <1>12, <2>1 DEF IInv, EpochInv
<1>15. Landed'
  <2>1. co.ended /\ ~Concurrent => \A k \in Key :
          (<<"put", k>> \in co.pend <=> <<"put", k>> \in co'.pend)
          /\ (<<"query", k>> \in co.pend <=> <<"query", k>> \in co'.pend)
    BY <1>1, Requests
  <2> QED
    BY <1>1, <1>3, <1>5, <1>7, <1>12, <2>1 DEF IInv, Landed
<1>16. NoticeInv'
  BY <1>1, <1>3, <1>6, <1>12 DEF IInv, NoticeInv, Final
<1>17. StagingInv'
  BY <1>1, <1>3, <1>6, <1>12 DEF IInv, StagingInv, Superseded, Current, Final
<1>18. FinalInv'
  BY <1>1, <1>12 DEF IInv, FinalInv
<1>19. CommittedInv'
  <2>1. Committed => co.ended
    BY DEF IInv, CommittedInv, Unevaluated
  <2> QED
    BY <1>1, <1>3, <1>6, <1>7, <1>12, <2>1 DEF IInv, CommittedInv, Found
<1>20. AckInv'
  BY <1>1, <1>3, <1>5, <1>12 DEF IInv, AckInv, Final
<1> QED
  BY <1>8, <1>9, <1>13, <1>14, <1>15, <1>16, <1>17, <1>18, <1>19, <1>20 DEF IInv

LEMMA DetectMissingKeepsIInv ==
  ASSUME IInv, TypeOK', PushInv', DetectMissing
  PROVE  IInv'
<1>1. PICK e : e = MissingIntent
  OBVIOUS
<1>2. /\ co.pc = "commit" /\ Concurrent /\ co.err = "none" /\ co.qerr = "missing"
      /\ UNCHANGED <<record, tombstone, intent, tscache, mine, seen, outcomes, cleaned, recovery, net>>
      /\ co' = [co EXCEPT !.qerr = e]
  BY <1>1 DEF DetectMissing, Undetected, server
<1>3. /\ SameBatch /\ co'.pend = co.pend /\ co'.wts = co.wts /\ co'.err = co.err
      /\ co'.staged = co.staged /\ co'.qerr = e
  BY <1>2 DEF SameBatch, IInv, TypeOK, Coord
<1>4. /\ e \in {"none", "ambiguous", "absent"} /\ (e = "none" => record.st = "COMMITTED")
      /\ e = "absent" => record.st # "COMMITTED" /\ ~(record.st = "none" /\ tombstone)
  BY <1>1 DEF MissingIntent
<1>5. /\ co'.epoch = co.epoch /\ co'.keys = co.keys /\ co'.hwts = co.hwts /\ co'.hrts = co.hrts
      /\ co'.par = co.par /\ co'.pc = co.pc /\ co'.ended = co.ended /\ co'.told = co.told
  BY <1>3 DEF SameBatch
<1>6. /\ Concurrent' = Concurrent /\ CommitRequest' = CommitRequest /\ ExplicitCommit' = ExplicitCommit
      /\ OnWay' = OnWay
  BY <1>2, <1>3, SameRequests DEF OnWay
<1>7. /\ Unevaluated' = Unevaluated /\ Doomed' = Doomed /\ Committed' = Committed /\ NotFinal' = NotFinal
      /\ (DeadBatch' = DeadBatch) /\ (Dead' = Dead) /\ Continues
  BY <1>2, <1>3, <1>5, <1>6
     DEF Unevaluated, Doomed, Committed, NotFinal, DeadBatch, Dead, Alive, Continues
<1>8. CoInv'
  BY <1>2, <1>3, <1>4, <1>6, <1>7 DEF IInv, CoInv, SameBatch
<1>9. NetInv'
  BY <1>2, <1>3, <1>5, <1>6, <1>7, SMT, Z3 DEF IInv, NetInv
<1>10. Shrinks
  BY <1>2, <1>6, ShrinkFrame, Fields, SMT, Z3 DEF IInv
<1>11. RecoveryInv'
  BY <1>2, <1>7, <1>10, RecoveriesKept DEF Found, NeverCommits
<1>12. EpochInv'
  BY <1>2, <1>3, <1>5, <1>6, <1>7 DEF IInv, EpochInv
<1>13. Landed'
  BY <1>2, <1>3, <1>4, <1>5, <1>6, <1>7 DEF IInv, Landed, NotFinal
<1>14. NoticeInv'
  BY <1>2, <1>3, <1>4, <1>5, <1>7 DEF IInv, NoticeInv
<1>15. StagingInv' /\ FinalInv'
  BY <1>2, <1>3, <1>5, <1>7 DEF IInv, StagingInv, Superseded, Current, FinalInv
<1>16. CommittedInv'
  <2>1. Committed => e \in {"none", "ambiguous"}
    BY <1>2, <1>4 DEF IInv, CoInv, CommittedInv
  <2> QED
    BY <1>2, <1>3, <1>5, <1>6, <1>7, <2>1 DEF IInv, CommittedInv, Found
<1>17. AckInv'
  <2>1. e = "none" => Committed
    BY <1>4 DEF Committed
  <2>2. co.told # "committed"
    BY <1>2 DEF IInv, CoInv
  <2> QED
    BY <1>2, <1>3, <1>5, <1>7, <2>1, <2>2 DEF IInv, AckInv
<1> QED
  BY <1>8, <1>9, <1>11, <1>12, <1>13, <1>14, <1>15, <1>16, <1>17 DEF IInv

\* The coordinator ends: the client is told t, and nothing else changes but the
\* requests N that are sent without waiting.
Ended(t) ==
  /\ co'.pc = "done" /\ co'.told = t /\ co'.pend = {} /\ co'.amb = {}
  /\ co'.epoch = co.epoch /\ co'.rts = co.rts /\ co'.wts = co.wts /\ co'.fwd = co.fwd
  /\ co'.keys = co.keys /\ co'.old = co.old /\ co'.piped = co.piped /\ co'.batch = co.batch
  /\ co'.par = co.par /\ co'.ended = co.ended /\ co'.hrts = co.hrts /\ co'.hwts = co.hwts
  /\ co'.err = co.err /\ co'.qerr = co.qerr /\ co'.staged = co.staged

LEMMA EndedKeeps ==
  ASSUME IInv, TypeOK', PushInv', UNCHANGED server, co.pc \in {"run", "commit"}, co.pend = {},
         NEW t \in {"committed", "aborted", "ambiguous", "error", "rolledback"}, Ended(t),
         NEW N, net' = net \cup N,
         \A q \in N : /\ q.type = "end" /\ q.epoch = co.epoch
                      /\ \/ q = ExplicitCommit /\ q.commit /\ t = "committed" /\ co.par
                         \/ ~q.commit /\ q.locks # {} /\ t \in Abstract!Failed \cup {"ambiguous"},
         t = "committed" =>
           /\ net = {} /\ ~Unevaluated /\ co.staged = co.hwts /\ 0 < co.hwts
           /\ \/ Committed
              \/ /\ co.par /\ record.st = "STAGING" /\ record.epoch = co.epoch
                 /\ \A k \in co.keys : Found(k, co.epoch, co.hwts),
         t = "aborted" => ~NotFinal /\ ~Committed,
         t \in {"error", "rolledback"} => ~co.ended
  PROVE  IInv'
<1>1. UNCHANGED <<record, tombstone, intent, tscache, mine, seen, outcomes, cleaned, recovery>>
  BY DEF server
<1>2. /\ co'.epoch = co.epoch /\ co'.keys = co.keys /\ co'.hwts = co.hwts /\ co'.hrts = co.hrts
      /\ co'.par = co.par /\ co'.pc = "done" /\ co'.ended = co.ended /\ co'.told = t
      /\ co'.wts = co.wts /\ co'.pend = co.pend /\ co'.err = co.err /\ co'.qerr = co.qerr
  BY DEF Ended
<1>3. co.told = "none" /\ "committed" \notin Abstract!Failed
  BY DEF IInv, CoInv, Abstract!Failed
<1>4. /\ Concurrent' = Concurrent /\ CommitRequest' = CommitRequest /\ ExplicitCommit' = ExplicitCommit
  BY DEF Ended, Concurrent, CommitRequest, InFlight, ExplicitCommit
<1>5. Unevaluated' = Unevaluated
  <2>1. CASE t = "committed"
    BY <1>2, <2>1 DEF Unevaluated
  <2>2. CASE t # "committed"
    BY <1>2, <1>3, <2>2 DEF Unevaluated
  <2> QED
    BY <2>1, <2>2
<1>6. OnWay' = OnWay
  <2>1. {q \in net' : q.type = "put"} = {q \in net : q.type = "put"}
    OBVIOUS
  <2> QED
    BY <1>2, <2>1 DEF OnWay, PutRequest
<1>7. /\ Doomed' /\ Committed' = Committed /\ NotFinal' = NotFinal
      /\ (DeadBatch' = DeadBatch) /\ (Dead' = Dead) /\ Continues
  BY <1>1, <1>2, <1>3, <1>5, <1>6 DEF Doomed, Committed, NotFinal, DeadBatch, Dead, Alive, Continues
<1>8. CoInv'
  <2>1. t = "committed" => co.ended
    BY DEF Unevaluated
  <2>2. CoInv
    BY DEF IInv
  <2> QED
    BY <1>4, <1>5, <2>1, <2>2 DEF CoInv, Ended
<1>9. NetInv'
  <2>1. \A q \in net : /\ q.epoch = co.epoch
                       /\ \/ /\ q.type = "put" /\ q.key \in co.keys
                             /\ co.ended => Concurrent
                          \/ /\ q.type = "end" /\ q.commit /\ q = CommitRequest
                             /\ co.ended /\ t # "committed"
    BY <1>3 DEF IInv, NetInv, Abstract!Failed
  <2>2. \A q \in net' : q \in net \/ q \in N
    OBVIOUS
  <2>3. \A q, p \in net' : q.type = "put" /\ p.type = "put" /\ q.key = p.key => q = p
    BY <2>2 DEF IInv, NetInv
  <2> QED
    BY <1>2, <1>4, <1>7, <2>1, <2>2, <2>3 DEF NetInv
<1>10. Shrinks
  BY <1>1, <1>6, ShrinkFrame, Fields, SMT, Z3 DEF IInv
<1>11. RecoveryInv'
  BY <1>1, <1>7, <1>10, RecoveriesKept DEF Found, NeverCommits
<1>12. EpochInv'
  BY <1>1, <1>2, <1>4, <1>7 DEF IInv, EpochInv
<1>13. Landed'
  BY <1>1, <1>2, <1>4, <1>6, <1>7 DEF IInv, Landed
<1>14. NoticeInv'
  BY <1>1, <1>2, <1>5, <1>7 DEF IInv, NoticeInv
<1>15. StagingInv' /\ FinalInv'
  BY <1>1, <1>2, <1>5, <1>7 DEF IInv, StagingInv, Superseded, Current, FinalInv
<1>16. CommittedInv'
  BY <1>1, <1>2, <1>3, <1>5, <1>6, <1>7 DEF IInv, CommittedInv, Found
<1>17. AckInv'
  BY <1>1, <1>2, <1>7 DEF AckInv, Found
<1> QED
  BY <1>8, <1>9, <1>11, <1>12, <1>13, <1>14, <1>15, <1>16, <1>17 DEF IInv

LEMMA DoneEnds ==
  ASSUME TypeOK, NEW t, co' = Done(co, t)
  PROVE  Ended(t)
BY DEF TypeOK, Coord, Done, Ended

LEMMA ClientRollbackKeepsIInv ==
  ASSUME IInv, TypeOK', PushInv', ClientRollback
  PROVE  IInv'
<1>1. PICK N : N = {Rollback}
  OBVIOUS
<1>2. /\ co.pc = "run" /\ co.keys \cup co.old # {} /\ Ended("rolledback")
      /\ net' = net \cup N /\ UNCHANGED server
  BY <1>1, DoneEnds DEF ClientRollback, IInv
<1>3. co.pend = {} /\ ~co.ended
  BY <1>2 DEF IInv, CoInv
<1>4. \A q \in N : q.type = "end" /\ q.epoch = co.epoch /\ ~q.commit /\ q.locks # {}
  BY <1>1, <1>2, SMT, Z3 DEF Rollback
<1>5. "rolledback" \in Abstract!Failed
  BY DEF Abstract!Failed
<1> QED
  BY <1>2, <1>3, <1>4, <1>5, EndedKeeps

LEMMA BatchErrFacts ==
  ASSUME IInv, Finished
  PROVE  /\ co.pc = "commit" /\ co.pend = {}
         /\ BatchErr \in {"none", "retry", "missing", "absent", "ambiguous", "aborted", "error"}
         /\ BatchErr = "none" =>
              co.err = "none" /\ co.qerr = "none" /\ co.ended /\ (co.par => co.wts <= co.staged)
         /\ BatchErr \in {"aborted", "error"} => co.err = BatchErr
         /\ BatchErr \in {"none", "retry", "missing", "absent"} => ~Final(co.err)
         /\ BatchErr \in {"missing", "absent"} => co.qerr = BatchErr /\ ~Undetected
         /\ BatchErr = "retry" =>
              \/ co.err = "retry" \/ co.qerr = "retry"
              \/ co.err = "none" /\ co.qerr = "none" /\ co.ended /\ co.par /\ co.staged < co.wts
<1> DEFINE e == IF Concurrent /\ co.err # "none" THEN co.err ELSE MergeErr(co.err, co.qerr)
<1>1. /\ co.pc = "commit" /\ co.pend = {} /\ ~Undetected
      /\ co.ended \/ co.err # "none" \/ co.qerr # "none"
  BY DEF Finished
<1>2. /\ co.err \in {"none", "retry", "aborted", "ambiguous", "error"}
      /\ co.qerr \in {"none", "retry", "missing", "absent", "ambiguous"}
      /\ co.staged \in Nat /\ co.wts \in Nat
  BY <1>1, Fields DEF IInv, CoInv
<1>3. \A d \in {"none", "retry", "aborted", "ambiguous", "error"} :
        \A f \in {"none", "retry", "missing", "absent", "ambiguous"} :
          /\ MergeErr(d, f) \in {d, f}
          /\ d \notin {"none", "retry"} => MergeErr(d, f) = d
          /\ MergeErr(d, f) = "none" => d = "none" /\ f = "none"
  BY SMT, Z3 DEF MergeErr, Priority
<1>4. /\ e \in {co.err, co.qerr} /\ (Final(co.err) => e = co.err)
      /\ (e = "none" => co.err = "none" /\ co.qerr = "none")
  BY <1>2, <1>3 DEF Final
<1> HIDE DEF e
<1>5. BatchErr = IF e = "none" /\ co.ended /\ co.par /\ co.staged < co.wts THEN "retry" ELSE e
  BY DEF BatchErr, e
<1> QED
  BY <1>1, <1>2, <1>4, <1>5, SMT, Z3 DEF Final

LEMMA FailKeepsIInv ==
  ASSUME IInv, TypeOK', PushInv', Fail
  PROVE  IInv'
<1>1. Finished /\ BatchErr \in {"aborted", "ambiguous", "error", "committed"} /\ UNCHANGED server
  BY DEF Fail
<1>2. /\ co.pc = "commit" /\ co.pend = {} /\ BatchErr \in {"aborted", "ambiguous", "error"}
      /\ BatchErr \in {"aborted", "error"} => co.err = BatchErr
  BY <1>1, BatchErrFacts
<1>3. PICK t \in {"aborted", "ambiguous", "error"} : t = BatchErr
  BY <1>2
<1>4. PICK N : N = {Rollback}
  OBVIOUS
<1>5. Ended(t) /\ net' = net \cup N
  <2>1. co' = Done(co, t)
    BY <1>3 DEF Fail
  <2>2. Ended(t)
    BY <2>1, DoneEnds DEF IInv
  <2>3. net' = net \cup N
    BY <1>3, <1>4 DEF Fail
  <2> QED
    BY <2>2, <2>3
<1>6. \A q \in N : q.type = "end" /\ q.epoch = co.epoch /\ ~q.commit /\ q.locks # {}
                   /\ t \in Abstract!Failed \cup {"ambiguous"}
  <2>1. co.keys \cup co.old # {}
    BY <1>2 DEF IInv, CoInv
  <2> QED
    BY <1>4, <2>1, SMT, Z3 DEF Rollback, Abstract!Failed
<1>7. t = "aborted" => ~NotFinal /\ ~Committed
  BY <1>2, <1>3 DEF IInv, NoticeInv
<1>8. t = "error" => ~co.ended
  BY <1>2, <1>3 DEF IInv, CoInv
<1> QED
  BY <1>1, <1>2, <1>5, <1>6, <1>7, <1>8, EndedKeeps

LEMMA AcknowledgeKeepsIInv ==
  ASSUME IInv, TypeOK', PushInv', Acknowledge
  PROVE  IInv'
<1>1. Finished /\ BatchErr = "none" /\ UNCHANGED server
  BY DEF Acknowledge
<1>2. /\ co.pc = "commit" /\ co.pend = {} /\ co.err = "none" /\ co.qerr = "none" /\ co.ended
      /\ co.par => co.wts <= co.staged
  BY <1>1, BatchErrFacts
<1>3. PICK N : N = IF co.par THEN {ExplicitCommit} ELSE {}
  OBVIOUS
<1>4. Ended("committed") /\ net' = net \cup N
  BY <1>3, DoneEnds DEF Acknowledge, IInv
<1>5. \A q \in N : q.type = "end" /\ q.epoch = co.epoch /\ q = ExplicitCommit /\ q.commit /\ co.par
  BY <1>3, SMT, Z3 DEF ExplicitCommit
<1>6. net = {}
  BY <1>2 DEF IInv, NetInv, Doomed, Final
<1>7. ~Unevaluated /\ co.staged = co.hwts /\ 0 < co.hwts
  BY <1>2, <1>6 DEF IInv, CoInv, Unevaluated
<1>8. co.par => co.wts = co.hwts
  BY <1>2, <1>7, Clocks, SMT, Z3 DEF IInv, CoInv
<1>9. \/ Committed
      \/ /\ co.par /\ record.st = "STAGING" /\ record.epoch = co.epoch
         /\ \A k \in co.keys : Found(k, co.epoch, co.hwts)
  <2> SUFFICES ASSUME ~Committed
               PROVE  /\ co.par /\ record.st = "STAGING" /\ record.epoch = co.epoch
                      /\ \A k \in co.keys : Found(k, co.epoch, co.hwts)
    OBVIOUS
  <2>1. co.par /\ record.st = "STAGING" /\ record.epoch = co.epoch
    <3>1. co.staged # 0 /\ ~(co.wts > co.hwts /\ co.par)
      BY <1>7, <1>8, Clocks, SMT, Z3 DEF IInv
    <3> QED
      BY <1>2, <3>1 DEF IInv, AckInv
  <2>2. record.ts = co.hwts /\ record.writes = co.keys
    BY <2>1, Clocks, SMT, Z3 DEF IInv, StagingInv, Superseded, Current
  <2>3. ~Dead
    <3>1. ~(co.wts > co.hwts)
      BY <1>8, <2>1, Clocks, SMT, Z3 DEF IInv
    <3> QED
      BY <1>2, <2>1, <3>1, Evidence
  <2>4. OnWay = {}
    BY <1>2, <1>6, OnWayTypes DEF IInv
  <2> QED
    BY <2>1, <2>2, <2>3, <2>4 DEF Dead, Alive, Possible, Found
<1> QED
  BY <1>1, <1>2, <1>4, <1>5, <1>6, <1>7, <1>9, EndedKeeps

\* The coordinator goes on to a write, a batch or an epoch that takes the place of
\* everything it tried to commit so far.
LEMMA MovedOnKeeps ==
  ASSUME IInv, TypeOK', UNCHANGED <<record, tombstone, mine, outcomes, cleaned, recovery>>,
         ~Committed, record.st = "STAGING" => Dead, co'.staged = 0, co'.told # "committed",
         co.told = "none",
         \A e, ts \in Nat :
           Superseded(co, e, ts) \/ (Current(co, e, ts) /\ ~Unevaluated) =>
             /\ Superseded(co', e, ts)
             /\ \A k \in Key : Possible(intent', tscache', OnWay', k, e, ts)
                               => Possible(intent, tscache, OnWay, k, e, ts)
  PROVE  StagingInv' /\ RecoveryInv' /\ FinalInv' /\ CommittedInv' /\ AckInv'
<1>1. ~Committed' /\ NotFinal' = NotFinal
  BY DEF Committed, NotFinal
<1>2. StagingInv'
  <2> SUFFICES ASSUME record.st = "STAGING"
               PROVE  Superseded(co', record.epoch, record.ts) /\ Dead'
    BY DEF StagingInv
  <2>1. record.epoch \in Nat /\ record.ts \in Nat /\ record.writes \subseteq Key
    BY Fields DEF IInv
  <2>2. /\ Superseded(co', record.epoch, record.ts)
        /\ \A k \in Key : Possible(intent', tscache', OnWay', k, record.epoch, record.ts)
                          => Possible(intent, tscache, OnWay, k, record.epoch, record.ts)
    BY <2>1 DEF IInv, StagingInv
  <2> QED
    BY <2>1, <2>2 DEF Dead, Alive
<1>3. RecoveryInv'
  <2> SUFFICES ASSUME NEW r \in Recoverer, recovery[r].pc = "probe"
               PROVE  Probing(recovery[r])'
    BY DEF RecoveryInv
  <2>1. PICK v : v = recovery[r]
    OBVIOUS
  <2>2. v.epoch \in Nat /\ v.ts \in Nat /\ v.todo \subseteq Key /\ Probing(v)
    BY <2>1, Fields DEF IInv, RecoveryInv
  <2>3. /\ Superseded(co', v.epoch, v.ts)
        /\ \A k \in Key : Possible(intent', tscache', OnWay', k, v.epoch, v.ts)
                          => Possible(intent, tscache, OnWay, k, v.epoch, v.ts)
    BY <2>2 DEF Probing
  <2>4. v.missed \/ \E k \in v.todo : ~Possible(intent, tscache, OnWay, k, v.epoch, v.ts)
    <3>1. CASE /\ record.st = "STAGING" /\ record.epoch = v.epoch /\ record.ts = v.ts
               /\ \A k \in record.writes \ v.todo : Found(k, v.epoch, v.ts)
      <4>1. PICK k \in record.writes : ~Possible(intent, tscache, OnWay, k, v.epoch, v.ts)
        BY <3>1 DEF Dead, Alive
      <4>2. k \in v.todo
        BY <3>1, <4>1 DEF Possible, Found
      <4> QED
        BY <4>1, <4>2
    <3> QED
      BY <2>2, <3>1 DEF Probing, Informed, Alive
  <2>5. v.missed \/ \E k \in v.todo : ~Possible(intent', tscache', OnWay', k, v.epoch, v.ts)
    BY <2>2, <2>3, <2>4
  <2> QED
    BY <2>1, <2>3, <2>5 DEF Probing, Informed, Alive
<1>4. FinalInv' /\ CommittedInv' /\ AckInv'
  BY <1>1 DEF IInv, FinalInv, CommittedInv, AckInv
<1> QED
  BY <1>2, <1>3, <1>4

\* A transaction that runs has nothing on its way, and what it tried to commit in
\* earlier epochs is off.
LEMMA Running ==
  ASSUME IInv, co.pc = "run"
  PROVE  /\ net = {} /\ OnWay = {} /\ co.pend = {} /\ ~Committed /\ ~Doomed /\ co.told = "none"
         /\ (record.st = "STAGING" => Dead) /\ co.staged = 0 /\ ~co.par /\ ~co.ended
         /\ co.err = "none" /\ co.qerr = "none" /\ co.keys = co.piped /\ co.hwts = 0 /\ co.hrts = 0
         /\ \A e, ts \in Nat : ~Current(co, e, ts) /\ (Superseded(co, e, ts) <=> e < co.epoch)
<1>1. /\ net = {} /\ co.pend = {} /\ co.told = "none" /\ co.staged = 0 /\ ~co.par /\ ~co.ended
      /\ co.err = "none" /\ co.qerr = "none" /\ co.keys = co.piped /\ co.hwts = 0
  BY DEF IInv, CoInv
<1>2. co.hrts = 0
  BY <1>1, Clocks, SMT, Z3 DEF IInv, CoInv
<1>3. OnWay = {}
  BY <1>1, OnWayTypes DEF IInv
<1>4. ~Committed /\ ~Doomed /\ (record.st = "STAGING" => Dead)
  BY DEF IInv, CommittedInv, StagingInv, Current, Doomed
<1>5. \A e, ts \in Nat : ~Current(co, e, ts) /\ (Superseded(co, e, ts) <=> e < co.epoch)
  BY DEF Current, Superseded
<1> QED
  BY <1>1, <1>2, <1>3, <1>4, <1>5

\* What a write leaves behind: an intent of the epoch that the coordinator, or a
\* push, knows about.
Wrote(k) ==
  /\ \A j \in Key \ {k} : intent'[j] = intent[j]
  /\ \/ intent'[k] = intent[k] /\ seen' = seen
     \/ /\ intent'[k].epoch = co.epoch /\ intent'[k] # NoIntent /\ seen' = seen \cup {intent'[k]}
        /\ intent'[k].ts \in Nat
        /\ intent'[k].ts <= co'.wts \/ \E m \in seen : m.ts = intent'[k].ts

LEMMA WroteSeen ==
  ASSUME IInv, TypeOK', NEW k \in Key, Wrote(k), ~Doomed, co.wts <= co'.wts, outcomes' = outcomes
  PROVE  /\ \A j \in Key : intent'[j] # NoIntent => intent'[j] \in seen'
         /\ \A m \in seen' :
              /\ m.epoch <= co.epoch
              /\ m.ts <= co'.wts \/ \E o \in outcomes' : o.st # "ABORTED" /\ m.ts <= o.ts
<1>1. /\ co.wts \in Nat /\ co'.wts \in Nat /\ co.epoch \in Nat /\ \A m \in seen : m.ts \in Nat
  BY Fields DEF IInv, TypeOK, Coord
<1>2. /\ \A j \in Key : intent[j] # NoIntent => intent[j] \in seen
      /\ \A m \in seen :
           /\ m.epoch <= co.epoch
           /\ m.ts <= co.wts \/ \E o \in outcomes : o.st # "ABORTED" /\ m.ts <= o.ts
  BY DEF IInv, EpochInv
<1>3. \A m \in seen : m.ts <= co'.wts \/ \E o \in outcomes : o.st # "ABORTED" /\ m.ts <= o.ts
  BY <1>1, <1>2, SMT, Z3
<1>4. CASE seen' = seen /\ intent'[k] = intent[k]
  BY <1>2, <1>3, <1>4 DEF Wrote
<1>5. CASE /\ intent'[k].epoch = co.epoch /\ intent'[k] # NoIntent /\ seen' = seen \cup {intent'[k]}
           /\ intent'[k].ts \in Nat
           /\ intent'[k].ts <= co'.wts \/ \E m \in seen : m.ts = intent'[k].ts
  <2>1. intent'[k].epoch <= co.epoch
    BY <1>1, <1>5, SMT, Z3
  <2>2. intent'[k].ts <= co'.wts \/ \E o \in outcomes : o.st # "ABORTED" /\ intent'[k].ts <= o.ts
    BY <1>3, <1>5
  <2>3. \A j \in Key : intent'[j] # NoIntent => intent'[j] \in seen'
    BY <1>2, <1>5 DEF Wrote
  <2> QED
    BY <1>2, <1>3, <1>5, <2>1, <2>2, <2>3
<1> QED
  BY <1>4, <1>5 DEF Wrote

LEMMA RanKeeps ==
  ASSUME IInv, TypeOK', PushInv', co.pc = "run", NEW k \in Key, Wrote(k), UNCHANGED net,
         UNCHANGED <<record, tombstone, tscache, mine, outcomes, cleaned, recovery>>,
         co'.pc = "run", co'.epoch = co.epoch, co'.fwd = co.fwd, co'.amb = co.amb,
         co'.keys = co.keys \cup {k}, co'.piped = co.piped \cup {k}, co'.par = co.par,
         co'.ended = co.ended, co'.hrts = co.hrts, co'.hwts = co.hwts, co'.pend = co.pend,
         co'.err = co.err, co'.qerr = co.qerr, co'.staged = co.staged, co'.told = co.told,
         0 < co'.rts, co'.rts <= co'.wts, co.wts <= co'.wts
  PROVE  IInv'
<1>1. /\ net = {} /\ OnWay = {} /\ co.pend = {} /\ ~Committed /\ ~Doomed /\ co.told = "none"
      /\ (record.st = "STAGING" => Dead) /\ co.staged = 0 /\ ~co.par /\ ~co.ended
      /\ co.err = "none" /\ co.qerr = "none" /\ co.keys = co.piped /\ co.hwts = 0 /\ co.hrts = 0
      /\ \A e, ts \in Nat : ~Current(co, e, ts) /\ (Superseded(co, e, ts) <=> e < co.epoch)
  BY Running
<1>2. co.epoch \in Nat /\ co'.wts \in Nat /\ ~co.fwd /\ co.amb = {}
  BY Clocks DEF IInv, TypeOK, Coord, CoInv
<1>3. OnWay' = {}
  BY <1>1 DEF OnWay
<1>4. ~Concurrent'
  BY <1>1 DEF Concurrent
<1>5. CoInv'
  BY <1>1, <1>2, <1>4, SMT, Z3 DEF CoInv
<1>6. NetInv'
  BY <1>1 DEF NetInv
<1>7. EpochInv'
  <2>1. /\ \A j \in Key : intent'[j] # NoIntent => intent'[j] \in seen'
        /\ \A m \in seen' :
             /\ m.epoch <= co.epoch
             /\ m.ts <= co'.wts \/ \E o \in outcomes' : o.st # "ABORTED" /\ m.ts <= o.ts
    BY <1>1, WroteSeen
  <2>2. \A j \in Key : intent'[j].epoch = co.epoch => j \in co'.keys
    BY DEF IInv, EpochInv, Wrote
  <2> QED
    BY <2>1, <2>2 DEF IInv, EpochInv
<1>8. Landed' /\ NoticeInv'
  BY <1>1 DEF Landed, NoticeInv
<1>9. StagingInv' /\ RecoveryInv' /\ FinalInv' /\ CommittedInv' /\ AckInv'
  <2>1. ASSUME NEW e \in Nat, NEW ts \in Nat, e < co.epoch
        PROVE  /\ Superseded(co', e, ts)
               /\ \A j \in Key : Possible(intent', tscache', OnWay', j, e, ts)
                                 => Possible(intent, tscache, OnWay, j, e, ts)
    <3>1. Superseded(co', e, ts)
      BY <2>1 DEF Superseded
    <3>2. \A j \in Key : intent'[j].epoch = e => intent'[j] = intent[j]
      BY <1>2, <2>1, SMT, Z3 DEF Wrote
    <3> QED
      BY <1>3, <3>1, <3>2 DEF Possible
  <2>2. \A e, ts \in Nat :
          Superseded(co, e, ts) \/ (Current(co, e, ts) /\ ~Unevaluated) =>
            /\ Superseded(co', e, ts)
            /\ \A j \in Key : Possible(intent', tscache', OnWay', j, e, ts)
                              => Possible(intent, tscache, OnWay, j, e, ts)
    BY <1>1, <2>1
  <2>3. co'.staged = 0 /\ co'.told # "committed"
    BY <1>1
  <2>4. co.told = "none"
    BY <1>1
  <2> QED
    BY <1>1, <2>2, <2>3, <2>4, MovedOnKeeps
<1> QED
  BY <1>5, <1>6, <1>7, <1>8, <1>9 DEF IInv

\* The next epoch starts, with nothing of the one before still on its way.
LEMMA NextEpochKeeps ==
  ASSUME IInv, TypeOK', PushInv', NEW k \in Key, Wrote(k), net = {}, UNCHANGED net,
         UNCHANGED <<record, tombstone, tscache, mine, outcomes, cleaned, recovery>>,
         co.pc \in {"run", "commit"}, co.pc # "run" => intent' = intent,
         ~Committed, ~Doomed, record.st = "STAGING" => Dead, co.wts <= co'.wts,
         co'.pc = "run", co'.epoch = co.epoch + 1, co'.rts = co'.wts, co'.fwd = co.fwd,
         co'.keys = {}, co'.piped = {}, co'.par = FALSE, co'.ended = FALSE, co'.hrts = 0,
         co'.hwts = 0, co'.pend = {}, co'.amb = {}, co'.err = "none", co'.qerr = "none",
         co'.staged = 0, co'.told = co.told
  PROVE  IInv'
<1>1. /\ co.epoch \in Nat /\ co.wts \in Nat /\ co'.wts \in Nat /\ ~co.fwd /\ 0 < co.wts
      /\ co.told = "none" /\ record.epoch \in Nat
  BY Clocks, SMT, Z3 DEF IInv, TypeOK, Coord, CoInv
<1>2. OnWay' = {} /\ ~Concurrent'
  BY DEF OnWay, Concurrent
<1>3. CoInv'
  BY <1>1, <1>2, SMT, Z3 DEF CoInv
<1>4. NetInv'
  BY DEF NetInv
<1>5. /\ \A j \in Key : intent'[j] # NoIntent => intent'[j] \in seen'
      /\ \A m \in seen' :
           /\ m.epoch <= co.epoch
           /\ m.ts <= co'.wts \/ \E o \in outcomes' : o.st # "ABORTED" /\ m.ts <= o.ts
  BY WroteSeen
<1>6. EpochInv'
  <2>1. /\ \A m \in seen' : m.epoch \in Nat /\ m.epoch <= co'.epoch /\ m.epoch # co'.epoch
    BY <1>1, <1>5, SMT, Z3 DEF TypeOK, ServerTypeOK, Written
  <2>2. \A j \in Key : intent'[j].epoch # co'.epoch
    BY <1>1, <1>5, <2>1, NoIntentFacts, SMTT(30), Z3
  <2>3. record.epoch <= co'.epoch
    BY <1>1, SMTT(30), Z3 DEF IInv, EpochInv
  <2>4. \A o \in outcomes : o.epoch <= co'.epoch
    BY <1>1, Fields, SMT, Z3 DEF IInv, EpochInv
  <2> QED
    BY <1>5, <2>1, <2>2, <2>3, <2>4 DEF EpochInv
<1>7. Landed' /\ NoticeInv'
  BY <1>1 DEF Landed, NoticeInv
<1>8. StagingInv' /\ RecoveryInv' /\ FinalInv' /\ CommittedInv' /\ AckInv'
  <2>1. ASSUME NEW e \in Nat, NEW ts \in Nat, Superseded(co, e, ts) \/ Current(co, e, ts)
        PROVE  /\ Superseded(co', e, ts)
               /\ \A j \in Key : Possible(intent', tscache', OnWay', j, e, ts)
                                 => Possible(intent, tscache, OnWay, j, e, ts)
    <3>1. Superseded(co', e, ts)
      BY <1>1, <2>1, SMT, Z3 DEF Superseded, Current
    <3>2. co.pc = "run" => e < co.epoch
      BY <2>1 DEF Superseded, Current
    <3>3. \A j \in Key : intent'[j].epoch = e => intent'[j] = intent[j]
      BY <1>1, <3>2, SMT, Z3 DEF Wrote
    <3> QED
      BY <1>2, <3>1, <3>3 DEF Possible
  <2>2. \A e, ts \in Nat :
          Superseded(co, e, ts) \/ (Current(co, e, ts) /\ ~Unevaluated) =>
            /\ Superseded(co', e, ts)
            /\ \A j \in Key : Possible(intent', tscache', OnWay', j, e, ts)
                              => Possible(intent, tscache, OnWay, j, e, ts)
    BY <2>1
  <2>3. co'.staged = 0 /\ co'.told # "committed"
    BY <1>1
  <2>4. co.told = "none"
    BY <1>1
  <2> QED
    BY <2>2, <2>3, <2>4, MovedOnKeeps
<1> QED
  BY <1>3, <1>4, <1>6, <1>7, <1>8 DEF IInv

LEMMA WriteOutcome ==
  ASSUME IInv, co.pc = "run", NEW k \in Key, k \notin co.keys, EvalPut(PutRequest(k, co.rts, co.wts)),
         co'.wts = Max2(co.wts, PutReply(PutRequest(k, co.rts, co.wts)))
  PROVE  /\ Wrote(k) /\ UNCHANGED <<record, tombstone, tscache, mine, outcomes, cleaned, recovery>>
         /\ co'.wts \in Nat /\ co.wts <= co'.wts
<1>1. PICK q : q = PutRequest(k, co.rts, co.wts)
  OBVIOUS
<1>2. q \in PutReq /\ q.key = k /\ q.epoch = co.epoch /\ ServerTypeOK
  BY <1>1, RequestTypes, Clocks DEF PutRequest, IInv, TypeOK
<1>3. /\ co.epoch \in Nat /\ co.wts \in Nat /\ intent[k].epoch \in Int
      /\ intent[k].epoch # co.epoch /\ (intent[k] # NoIntent => intent[k] \in seen)
  BY Fields DEF IInv, EpochInv
<1>4. ~PutRefused(q)
  <2>1. intent[k] # NoIntent => intent[k].epoch <= co.epoch
    BY <1>3 DEF IInv, EpochInv
  <2> QED
    BY <1>2, <1>3, <2>1, NoIntentFacts, SMTT(30), Z3 DEF PutRefused
<1>5. /\ UNCHANGED <<record, tombstone, tscache, mine, outcomes, cleaned, recovery>>
      /\ \A j \in Key \ {k} : intent'[j] = intent[j]
      /\ intent'[k] = [epoch |-> co.epoch, ts |-> PutTS(q)] /\ seen' = seen \cup {intent'[k]}
  BY <1>1, <1>2, <1>4, EvalPutFacts
<1>6. /\ PutTS(q) \in Nat /\ PutReply(q) \in Nat
      /\ PutTS(q) <= PutReply(q) \/ (intent[k] # NoIntent /\ PutTS(q) = intent[k].ts)
  BY <1>2, <1>3, PutFacts
<1>7. co'.wts \in Nat /\ co.wts <= co'.wts /\ PutReply(q) <= co'.wts
  BY <1>1, <1>3, <1>6, SMTT(30), Z3 DEF Max2
<1>8. intent'[k].epoch = co.epoch /\ intent'[k].ts = PutTS(q) /\ intent'[k] # NoIntent
  BY <1>3, <1>5, NoIntentFacts, SMT, Z3
<1>9. intent'[k].ts <= co'.wts \/ \E m \in seen : m.ts = intent'[k].ts
  BY <1>3, <1>6, <1>7, <1>8, SMT, Z3
<1> QED
  BY <1>5, <1>6, <1>7, <1>8, <1>9 DEF Wrote

LEMMA WriteKeepsIInv ==
  ASSUME IInv, TypeOK', PushInv', NEW k \in Key, Write(k)
  PROVE  IInv'
<1>1. PICK q : q = PutRequest(k, co.rts, co.wts)
  OBVIOUS
<1>2. PICK w : w = Max2(co.wts, PutReply(q))
  OBVIOUS
<1>3. PICK c : c = [co EXCEPT !.pc = "run", !.keys = @ \cup {k}, !.piped = @ \cup {k},
                              !.batch = {}, !.wts = w, !.rts = co.rts]
  OBVIOUS
<1>4. co \in Coord /\ co.pc = "run" /\ ~co.fwd /\ 0 < co.rts /\ co.rts <= co.wts
      /\ co.wts \in Nat /\ co.rts \in Nat
  BY Clocks DEF IInv, TypeOK, CoInv, Write
<1>5. PutReplyRTS(q) = co.rts
  BY <1>4 DEF PutReplyRTS
<1>6. /\ k \notin co.keys /\ EvalPut(q) /\ UNCHANGED net
      /\ \/ co' = [c EXCEPT !.rts = w] \/ co' = c \/ co' = NextEpoch(c)
  BY <1>1, <1>2, <1>3, <1>5 DEF Write
<1>7. /\ c.pc = "run" /\ c.keys = co.keys \cup {k} /\ c.piped = co.piped \cup {k} /\ c.wts = w
      /\ c.rts = co.rts /\ c.epoch = co.epoch /\ c.fwd = co.fwd /\ c.amb = co.amb
      /\ c.par = co.par /\ c.ended = co.ended /\ c.hrts = co.hrts /\ c.hwts = co.hwts
      /\ c.pend = co.pend /\ c.err = co.err /\ c.qerr = co.qerr /\ c.staged = co.staged
      /\ c.told = co.told /\ DOMAIN c = DOMAIN co
  BY <1>3, <1>4 DEF Coord
<1>8. co'.wts = w
  <2>1. "wts" \in DOMAIN c /\ "rts" \in DOMAIN c
    BY <1>3, <1>4 DEF Coord
  <2>2. [c EXCEPT !.rts = w].wts = w
    BY <1>7, <2>1
  <2>3. NextEpoch(c).wts = w
    BY <1>3, <1>4, <1>7 DEF NextEpoch, Coord
  <2> QED
    BY <1>6, <1>7, <2>2, <2>3
<1>9. /\ Wrote(k) /\ UNCHANGED <<record, tombstone, tscache, mine, outcomes, cleaned, recovery>>
      /\ co'.wts \in Nat /\ co.wts <= co'.wts
  BY <1>1, <1>2, <1>4, <1>6, <1>8, WriteOutcome
<1>10. CASE co' = [c EXCEPT !.rts = w] \/ co' = c
  <2>1. /\ co'.pc = "run" /\ co'.epoch = co.epoch /\ co'.fwd = co.fwd /\ co'.amb = co.amb
        /\ co'.keys = co.keys \cup {k} /\ co'.piped = co.piped \cup {k} /\ co'.par = co.par
        /\ co'.ended = co.ended /\ co'.hrts = co.hrts /\ co'.hwts = co.hwts /\ co'.pend = co.pend
        /\ co'.err = co.err /\ co'.qerr = co.qerr /\ co'.staged = co.staged /\ co'.told = co.told
    <3>1. CASE co' = [c EXCEPT !.rts = w]
      BY <1>7, <3>1, SMT, Z3
    <3>2. CASE co' = c
      BY <1>7, <3>2
    <3> QED
      BY <1>10, <3>1, <3>2
  <2>2. co'.rts \in {w, co.rts}
    BY <1>3, <1>4, <1>7, <1>10 DEF Coord
  <2>3. 0 < co'.rts /\ co'.rts <= co'.wts
    BY <1>4, <1>8, <1>9, <2>2, SMT, Z3
  <2> QED
    BY <1>4, <1>6, <1>9, <2>1, <2>3, RanKeeps
<1>11. CASE co' = NextEpoch(c)
  <2>1. /\ co'.pc = "run" /\ co'.epoch = co.epoch + 1 /\ co'.rts = co'.wts /\ co'.fwd = co.fwd
        /\ co'.keys = {} /\ co'.piped = {} /\ co'.par = FALSE /\ co'.ended = FALSE /\ co'.hrts = 0
        /\ co'.hwts = 0 /\ co'.pend = {} /\ co'.amb = {} /\ co'.err = "none" /\ co'.qerr = "none"
        /\ co'.staged = 0 /\ co'.told = co.told
    BY <1>3, <1>4, <1>7, <1>11, SMT, Z3 DEF Coord, NextEpoch
  <2>2. net = {} /\ ~Committed /\ ~Doomed /\ (record.st = "STAGING" => Dead)
    BY <1>4, Running
  <2> QED
    BY <1>4, <1>6, <1>9, <2>1, <2>2, NextEpochKeeps
<1> QED
  BY <1>6, <1>10, <1>11

LEMMA WriteFailedKeepsIInv ==
  ASSUME IInv, TypeOK', PushInv', NEW k \in Key, WriteFailed(k)
  PROVE  IInv'
<1>1. PICK q : q = PutRequest(k, co.rts, co.wts)
  OBVIOUS
<1>2. PICK w : w = Max2(co.wts, PutReply(q))
  OBVIOUS
<1>3. /\ co.pc = "run" /\ UNCHANGED <<server, net>>
      /\ co' = [co EXCEPT !.keys = @ \cup {k}, !.piped = @ \cup {k}, !.wts = w]
  BY <1>1, <1>2 DEF WriteFailed
<1>4. co \in Coord /\ 0 < co.rts /\ co.rts <= co.wts /\ co.wts \in Nat /\ co.rts \in Nat
  BY Clocks DEF IInv, TypeOK, CoInv
<1>5. /\ co'.pc = "run" /\ co'.epoch = co.epoch /\ co'.fwd = co.fwd /\ co'.amb = co.amb
      /\ co'.keys = co.keys \cup {k} /\ co'.piped = co.piped \cup {k} /\ co'.par = co.par
      /\ co'.ended = co.ended /\ co'.hrts = co.hrts /\ co'.hwts = co.hwts /\ co'.pend = co.pend
      /\ co'.err = co.err /\ co'.qerr = co.qerr /\ co'.staged = co.staged /\ co'.told = co.told
      /\ co'.wts = w /\ co'.rts = co.rts
  BY <1>3, <1>4 DEF Coord
<1>6. co'.wts \in Nat /\ PutReply(q) \in Nat
  <2>1. q \in PutReq /\ ServerTypeOK
    BY <1>1, <1>4, RequestTypes DEF IInv, TypeOK
  <2> QED
    BY <1>2, <1>4, <1>5, <2>1, PutFacts DEF Max2
<1>7. co.wts <= co'.wts /\ 0 < co'.rts /\ co'.rts <= co'.wts
  BY <1>2, <1>4, <1>5, <1>6, SMTT(30), Z3 DEF Max2
<1>8. UNCHANGED <<record, tombstone, intent, tscache, mine, seen, outcomes, cleaned, recovery>>
  BY <1>3 DEF server
<1>9. Wrote(k)
  BY <1>8 DEF Wrote
<1> QED
  BY <1>3, <1>5, <1>7, <1>8, <1>9, RanKeeps

LEMMA WriteLostKeepsIInv ==
  ASSUME IInv, TypeOK', PushInv', ~ResendLost, NEW k \in Key, WriteLost(k)
  PROVE  IInv'
<1>1. PICK p : p = PutRequest(k, co.rts, co.wts)
  OBVIOUS
<1>2. PICK b : b = [Rollback EXCEPT !.locks = @ \cup {k}]
  OBVIOUS
<1>3. PICK c : c = [co EXCEPT !.keys = @ \cup {k}]
  OBVIOUS
<1>4. /\ co.pc = "run" /\ k \notin co.keys /\ co' = Done(c, "error") /\ net' = net \cup {p, b}
      /\ UNCHANGED <<record, tombstone, intent, tscache, mine, seen, outcomes, cleaned, recovery>>
  BY <1>1, <1>2, <1>3 DEF WriteLost, server
<1>5. /\ net = {} /\ OnWay = {} /\ co.pend = {} /\ ~Committed /\ ~Doomed /\ co.told = "none"
      /\ (record.st = "STAGING" => Dead) /\ co.staged = 0 /\ ~co.par /\ ~co.ended
      /\ co.err = "none" /\ co.qerr = "none" /\ co.keys = co.piped /\ co.hwts = 0 /\ co.hrts = 0
      /\ \A e, ts \in Nat : ~Current(co, e, ts) /\ (Superseded(co, e, ts) <=> e < co.epoch)
  BY <1>4, Running
<1>6. /\ p.type = "put" /\ p.key = k /\ p.epoch = co.epoch /\ b.type = "end" /\ ~b.commit
      /\ b.epoch = co.epoch /\ b.locks # {}
  BY <1>1, <1>2 DEF PutRequest, Rollback
<1>7. /\ co'.pc = "done" /\ co'.told = "error" /\ co'.pend = {} /\ co'.amb = {}
      /\ co'.keys = co.keys \cup {k} /\ co'.epoch = co.epoch /\ co'.rts = co.rts
      /\ co'.wts = co.wts /\ co'.fwd = co.fwd /\ co'.par = co.par /\ co'.ended = co.ended
      /\ co'.hrts = co.hrts /\ co'.hwts = co.hwts /\ co'.err = co.err /\ co'.qerr = co.qerr
      /\ co'.staged = co.staged
  <2>1. co \in Coord
    BY DEF IInv, TypeOK
  <2> QED
    BY <1>3, <1>4, <2>1 DEF Coord, Done
<1>8. co.epoch \in Nat /\ co.wts \in Nat /\ ~co.fwd /\ 0 < co.rts /\ co.rts <= co.wts
  BY Clocks DEF IInv, CoInv
<1>9. ~Concurrent' /\ Doomed'
  BY <1>5, <1>7 DEF Concurrent, Doomed
<1>10. CoInv'
  BY <1>5, <1>7, <1>8, <1>9, SMTT(30), Z3 DEF CoInv
<1>11. NetInv'
  <2>1. net' = {p, b} /\ "error" \in Abstract!Failed
    BY <1>4, <1>5 DEF Abstract!Failed
  <2> QED
    BY <1>5, <1>6, <1>7, <1>9, <2>1 DEF NetInv
<1>12. EpochInv'
  BY <1>4, <1>5, <1>7, <1>9 DEF IInv, EpochInv
<1>13. Landed' /\ NoticeInv'
  BY <1>5, <1>7 DEF Landed, NoticeInv
<1>14. \A o \in OnWay' : o.epoch = co.epoch
  BY <1>4, <1>5, <1>6, <1>7 DEF OnWay
<1>15. StagingInv' /\ RecoveryInv' /\ FinalInv' /\ CommittedInv' /\ AckInv'
  <2>1. ASSUME NEW e \in Nat, NEW ts \in Nat, e < co.epoch
        PROVE  /\ Superseded(co', e, ts)
               /\ \A j \in Key : Possible(intent', tscache', OnWay', j, e, ts)
                                 => Possible(intent, tscache, OnWay, j, e, ts)
    BY <1>4, <1>7, <1>8, <1>14, <2>1, SMTT(30), Z3 DEF Superseded, Possible
  <2>2. \A e, ts \in Nat :
          Superseded(co, e, ts) \/ (Current(co, e, ts) /\ ~Unevaluated) =>
            /\ Superseded(co', e, ts)
            /\ \A j \in Key : Possible(intent', tscache', OnWay', j, e, ts)
                              => Possible(intent, tscache, OnWay, j, e, ts)
    BY <1>5, <2>1
  <2>3. co'.staged = 0 /\ co'.told # "committed"
    BY <1>5, <1>7
  <2>4. co.told = "none"
    BY <1>5
  <2> QED
    BY <1>4, <1>5, <2>2, <2>3, <2>4, MovedOnKeeps
<1> QED
  BY <1>10, <1>11, <1>12, <1>13, <1>15 DEF IInv

LEMMA PrepareFacts ==
  ASSUME NEW c \in Coord
  PROVE  LET d == Prepare(c) IN
         /\ d.pc = "commit" /\ d.hrts = c.rts /\ d.hwts = c.wts /\ d.staged = 0
         /\ d.err = "none" /\ d.qerr = "none" /\ d.amb = {} /\ d.ended = (c.par /\ c.epoch = 0)
         /\ d.pend = Puts(c.batch) \cup Queries(c.piped)
                       \cup (IF c.par /\ c.epoch = 0 THEN {End} ELSE {})
         /\ d.epoch = c.epoch /\ d.rts = c.rts /\ d.wts = c.wts /\ d.fwd = c.fwd
         /\ d.keys = c.keys /\ d.old = c.old /\ d.piped = c.piped /\ d.batch = c.batch
         /\ d.par = c.par /\ d.told = c.told
<1>1. PICK both : both = (c.par /\ c.epoch = 0)
  OBVIOUS
<1>2. PICK p : p = Puts(c.batch) \cup Queries(c.piped)
                     \cup (IF c.par /\ c.epoch = 0 THEN {End} ELSE {})
  OBVIOUS
<1>3. Prepare(c) = [c EXCEPT !.pc = "commit", !.hrts = c.rts, !.hwts = c.wts, !.staged = 0,
                             !.err = "none", !.qerr = "none", !.amb = {}, !.ended = both,
                             !.pend = p]
  BY <1>1, <1>2 DEF Prepare
<1> QED
  BY <1>1, <1>2, <1>3, SMTT(30), Z3 DEF Coord

\* A batch is sent, for the first time or after a refresh, when nothing is on its way.
LEMMA PreparedKeeps ==
  ASSUME IInv, TypeOK', PushInv', UNCHANGED <<server, net>>, net = {}, ~Committed, ~Doomed,
         record.st = "STAGING" => Dead, NEW c \in Coord, co' = Prepare(c),
         c.epoch = co.epoch, c.wts = co.wts, c.fwd = co.fwd, c.told = co.told,
         0 < c.rts, c.rts <= c.wts, co.keys \subseteq c.keys, c.keys = c.piped \cup c.batch,
         c.piped \cap c.batch = {}, c.keys \cup c.old # {}, c.par => c.keys # {},
         c.par => c.batch \cap co.keys = {},
         \A e, ts \in Nat :
           Superseded(co, e, ts) \/ (Current(co, e, ts) /\ ~Unevaluated) =>
             Superseded(co', e, ts) /\ (e < co.epoch \/ ts < co.wts)
  PROVE  IInv'
<1>1. /\ co'.pc = "commit" /\ co'.hrts = c.rts /\ co'.hwts = co.wts /\ co'.staged = 0
      /\ co'.err = "none" /\ co'.qerr = "none" /\ co'.amb = {}
      /\ co'.ended = (c.par /\ co.epoch = 0)
      /\ co'.pend = Puts(c.batch) \cup Queries(c.piped)
                      \cup (IF c.par /\ co.epoch = 0 THEN {End} ELSE {})
      /\ co'.epoch = co.epoch /\ co'.rts = c.rts /\ co'.wts = co.wts /\ co'.fwd = co.fwd
      /\ co'.keys = c.keys /\ co'.old = c.old /\ co'.piped = c.piped /\ co'.batch = c.batch
      /\ co'.par = c.par /\ co'.told = co.told
  BY PrepareFacts, SMT, Z3
<1>2. UNCHANGED <<record, tombstone, intent, tscache, mine, seen, outcomes, cleaned, recovery>>
  BY DEF server
<1>3. /\ co.epoch \in Nat /\ co.wts \in Nat /\ c.rts \in Nat /\ c.batch \subseteq Key /\ ~co.fwd
      /\ co.told = "none"
  BY Clocks DEF IInv, Coord, CoInv, Doomed
<1>4. Concurrent' = co'.ended /\ ~Doomed' /\ (co'.ended => End \in co'.pend)
  BY <1>1 DEF Concurrent, Doomed, Final
<1>5. CoInv'
  <2>1. co'.pend \subseteq Puts(co'.batch) \cup Queries(co'.piped) \cup {End}
    BY <1>1
  <2>2. Unevaluated'
    BY <1>4 DEF Unevaluated
  <2>3. End \in co'.pend => co'.ended
    BY <1>1 DEF End, Puts, Queries
  <2> QED
    BY <1>1, <1>3, <1>4, <2>1, <2>2, <2>3, SMTT(30), Z3 DEF CoInv
<1>6. NetInv'
  BY DEF NetInv
<1>7. EpochInv'
  BY <1>1, <1>2 DEF IInv, EpochInv
<1>8. \A q \in OnWay' : q.epoch = co.epoch /\ q.wts = co.wts /\ q.key \in c.batch
  <2>1. \A k \in Key : <<"put", k>> \in co'.pend => k \in c.batch
    BY <1>1 DEF Puts, Queries, End
  <2>2. \A q \in OnWay' : \E k \in Key :
          /\ <<"put", k>> \in co'.pend
          /\ q = [type |-> "put", key |-> k, epoch |-> co'.epoch, rts |-> co'.hrts,
                  wts |-> co'.hwts]
    BY DEF OnWay, PutRequest
  <2>3. \A q \in OnWay' : /\ q.epoch = co'.epoch /\ q.wts = co'.hwts /\ q.key \in Key
                          /\ <<"put", q.key>> \in co'.pend
    <3> SUFFICES ASSUME NEW q \in OnWay'
                 PROVE  /\ q.epoch = co'.epoch /\ q.wts = co'.hwts /\ q.key \in Key
                        /\ <<"put", q.key>> \in co'.pend
      OBVIOUS
    <3>1. PICK k \in Key :
            /\ <<"put", k>> \in co'.pend
            /\ q = [type |-> "put", key |-> k, epoch |-> co'.epoch, rts |-> co'.hrts,
                    wts |-> co'.hwts]
      BY <2>2
    <3>2. q.epoch = co'.epoch /\ q.wts = co'.hwts /\ q.key = k
      BY <3>1
    <3> QED
      BY <3>1, <3>2
  <2>4. co'.epoch = co.epoch /\ co'.hwts = co.wts
    BY <1>1
  <2> QED
    BY <2>1, <2>3, <2>4
<1>9. Landed'
  <2>1. \A k \in c.keys : <<"put", k>> \in co'.pend \/ <<"query", k>> \in co'.pend
    BY <1>1 DEF Puts, Queries
  <2>2. ASSUME c.par, NEW q \in OnWay' PROVE intent[q.key].epoch < co.epoch
    <3>1. q.key \in Key /\ q.key \notin co.keys
      BY <1>3, <1>8, <2>2
    <3>2. /\ intent[q.key].epoch # co.epoch /\ intent[q.key].epoch \in Int
          /\ intent[q.key] # NoIntent => intent[q.key].epoch <= co.epoch
      BY <3>1, Fields DEF IInv, EpochInv
    <3> QED
      BY <1>3, <3>1, <3>2, NoIntentFacts, SMTT(30), Z3
  <2> QED
    BY <1>1, <1>2, <2>1, <2>2 DEF Landed
<1>10. NoticeInv'
  BY <1>1, <1>3, SMT, Z3 DEF NoticeInv
<1>11. StagingInv' /\ RecoveryInv' /\ FinalInv' /\ CommittedInv' /\ AckInv'
  <2>1. ASSUME NEW e \in Nat, NEW ts \in Nat, e < co.epoch \/ ts < co.wts
        PROVE  \A j \in Key : Possible(intent', tscache', OnWay', j, e, ts)
                              => Possible(intent, tscache, OnWay, j, e, ts)
    <3>1. ~\E q \in OnWay' : q.epoch = e /\ q.wts <= ts
      BY <1>3, <1>8, <2>1, SMTT(30), Z3
    <3> QED
      BY <1>2, <3>1 DEF Possible
  <2>2. \A e, ts \in Nat :
          Superseded(co, e, ts) \/ (Current(co, e, ts) /\ ~Unevaluated) =>
            /\ Superseded(co', e, ts)
            /\ \A j \in Key : Possible(intent', tscache', OnWay', j, e, ts)
                              => Possible(intent, tscache, OnWay, j, e, ts)
    BY <2>1
  <2>3. co'.staged = 0 /\ co'.told # "committed"
    BY <1>1, <1>3
  <2>4. co.told = "none"
    BY <1>3
  <2> QED
    BY <1>2, <2>2, <2>3, <2>4, MovedOnKeeps
<1> QED
  BY <1>5, <1>6, <1>7, <1>9, <1>10, <1>11 DEF IInv

LEMMA StartCommitKeepsIInv ==
  ASSUME IInv, TypeOK', PushInv', NEW b \in SUBSET Key, NEW par \in BOOLEAN, StartCommit(b, par)
  PROVE  IInv'
<1>1. PICK c : c = [co EXCEPT !.keys = co.keys \cup b, !.batch = b, !.par = par]
  OBVIOUS
<1>2. /\ co.pc = "run" /\ b \subseteq Key \ co.keys /\ (co.keys \cup b) \cup co.old # {}
      /\ par => co.piped \cup b # {}
      /\ co' = Prepare(c) /\ UNCHANGED <<server, net>>
  BY <1>1 DEF StartCommit
<1>3. co \in Coord /\ co.keys \subseteq Key
  BY DEF IInv, TypeOK, Coord
<1>4. c \in Coord
  BY <1>1, <1>3 DEF Coord
<1>5. /\ c.epoch = co.epoch /\ c.wts = co.wts /\ c.rts = co.rts /\ c.fwd = co.fwd
      /\ c.told = co.told /\ c.keys = co.keys \cup b /\ c.piped = co.piped /\ c.batch = b
      /\ c.old = co.old /\ c.par = par
  BY <1>1, <1>3 DEF Coord
<1>6. /\ net = {} /\ ~Committed /\ ~Doomed /\ (record.st = "STAGING" => Dead) /\ co.keys = co.piped
      /\ \A e, ts \in Nat : ~Current(co, e, ts) /\ (Superseded(co, e, ts) <=> e < co.epoch)
  BY <1>2, Running
<1>7. co'.epoch = co.epoch
  BY <1>2, <1>4, <1>5, PrepareFacts
<1>8. \A e, ts \in Nat :
        Superseded(co, e, ts) \/ (Current(co, e, ts) /\ ~Unevaluated) =>
          Superseded(co', e, ts) /\ (e < co.epoch \/ ts < co.wts)
  BY <1>6, <1>7 DEF Superseded
<1>9. 0 < co.rts /\ co.rts <= co.wts
  BY DEF IInv, CoInv
<1> QED
  BY <1>2, <1>4, <1>5, <1>6, <1>8, <1>9, PreparedKeeps

LEMMA SendEndTxnKeepsIInv ==
  ASSUME IInv, TypeOK', PushInv', SendEndTxn
  PROVE  IInv'
<1>1. /\ co.pc = "commit" /\ co.pend = {} /\ ~co.ended /\ co.err = "none" /\ co.qerr = "none"
      /\ UNCHANGED net
      /\ UNCHANGED <<record, tombstone, intent, tscache, mine, seen, outcomes, cleaned, recovery>>
  BY DEF SendEndTxn, server
<1>2. /\ co'.pc = "commit" /\ co'.ended = TRUE /\ co'.pend = {End} /\ co'.hrts = co.rts
      /\ co'.hwts = co.wts /\ co'.epoch = co.epoch /\ co'.rts = co.rts /\ co'.wts = co.wts
      /\ co'.fwd = co.fwd /\ co'.keys = co.keys /\ co'.old = co.old /\ co'.piped = co.piped
      /\ co'.batch = co.batch /\ co'.par = co.par /\ co'.amb = co.amb /\ co'.err = co.err
      /\ co'.qerr = co.qerr /\ co'.staged = co.staged /\ co'.told = co.told
  <2>1. co \in Coord
    BY DEF IInv, TypeOK
  <2> QED
    BY <1>1, <2>1 DEF SendEndTxn, Coord
<1>3. /\ co.wts \in Nat /\ co.rts \in Nat /\ co.hwts \in Nat /\ co.hwts <= co.wts
      /\ 0 < co.rts /\ co.rts <= co.wts
  BY Clocks DEF IInv, CoInv
<1>4. Unevaluated /\ ~Doomed /\ ~Concurrent /\ Unevaluated' /\ ~Doomed' /\ ~Concurrent'
  BY <1>1, <1>2 DEF IInv, CoInv, Unevaluated, Doomed, Final, Concurrent
<1>5. net = {} /\ ~Committed /\ co.staged = 0 /\ co.told = "none" /\ (record.st = "STAGING" => Dead)
  BY <1>1, <1>4 DEF IInv, CoInv, NetInv, CommittedInv, StagingInv
<1>6. OnWay' = {}
  BY <1>1, <1>2, <1>5 DEF OnWay, End
<1>7. CoInv'
  <2>1. CoInv
    BY DEF IInv
  <2> QED
    BY <1>1, <1>2, <1>3, <1>4, <1>5, <2>1, SMTT(30), Z3 DEF CoInv
<1>8. NetInv'
  BY <1>1, <1>5 DEF NetInv
<1>9. EpochInv'
  BY <1>1, <1>2, <1>4 DEF IInv, EpochInv
<1>10. Landed'
  <2>1. NotFinal => \A k \in co.keys : intent[k].epoch = co.epoch
    BY <1>1 DEF IInv, Landed, Final
  <2> QED
    BY <1>1, <1>2, <1>6, <2>1 DEF Landed, NotFinal
<1>11. NoticeInv'
  BY <1>1, <1>2, <1>3, <1>5, SMTT(30), Z3 DEF NoticeInv
<1>12. StagingInv' /\ RecoveryInv' /\ FinalInv' /\ CommittedInv' /\ AckInv'
  <2>1. \A e, ts \in Nat : Superseded(co, e, ts) => Superseded(co', e, ts)
    BY <1>2, <1>3, SMT, Z3 DEF Superseded
  <2>2. \A e, ts \in Nat : \A j \in Key : Possible(intent', tscache', OnWay', j, e, ts)
                                          => Possible(intent, tscache, OnWay, j, e, ts)
    BY <1>1, <1>6 DEF Possible
  <2>3. co'.staged = 0 /\ co'.told # "committed"
    BY <1>2, <1>5
  <2>4. co.told = "none"
    BY <1>1 DEF IInv, CoInv
  <2> QED
    BY <1>1, <1>4, <1>5, <2>1, <2>2, <2>3, <2>4, MovedOnKeeps
<1> QED
  BY <1>7, <1>8, <1>9, <1>10, <1>11, <1>12 DEF IInv

\* A batch that is tried again, in this epoch or in the next, was not committed, and
\* never will be.
LEMMA RetriedIsOff ==
  ASSUME IInv, Finished, BatchErr \in {"retry", "missing", "absent"}
  PROVE  /\ co.pc = "commit" /\ ~Doomed /\ net = {} /\ ~Committed /\ (record.st = "STAGING" => Dead)
         /\ co.par /\ co.err # "retry" /\ BatchErr = "retry" => co.hwts < co.wts
<1>1. /\ co.pc = "commit" /\ co.pend = {} /\ ~Final(co.err)
      /\ BatchErr \in {"missing", "absent"} => co.qerr = BatchErr /\ ~Undetected
      /\ BatchErr = "retry" =>
           \/ co.err = "retry" \/ co.qerr = "retry"
           \/ co.err = "none" /\ co.qerr = "none" /\ co.ended /\ co.par /\ co.staged < co.wts
  BY BatchErrFacts
<1>2. ~Doomed /\ net = {}
  BY <1>1 DEF IInv, NetInv, Doomed
<1>3. co.ended /\ co.err = "none" => co.staged = co.hwts
  BY <1>1 DEF IInv, CoInv
<1>4. /\ co.par /\ co.qerr = "retry" => co.wts > co.hwts
      /\ co.par /\ co.qerr # "none" => DeadBatch
      /\ /\ co.par /\ co.wts > co.hwts /\ record.st = "STAGING" /\ record.epoch = co.epoch
         => DeadBatch
  BY <1>1 DEF IInv, NoticeInv
<1>5. co.par /\ co.err # "retry" /\ BatchErr = "retry" => co.hwts < co.wts
  BY <1>1, <1>3, <1>4, Clocks DEF IInv
<1>6. ~Committed
  <2> SUFFICES ASSUME Committed PROVE FALSE
    OBVIOUS
  <2>1. /\ co.err = "none" /\ co.qerr \in {"none", "missing", "ambiguous"} /\ co.ended
        /\ co.par => co.wts = co.hwts
    BY <1>1 DEF IInv, CommittedInv, Final, Unevaluated
  <2>2. CASE BatchErr = "retry"
    BY <1>1, <1>5, <2>1, <2>2, Clocks, SMTT(30), Z3 DEF IInv
  <2>3. CASE BatchErr # "retry"
    <3>1. co.qerr = "missing" /\ ~Undetected
      BY <1>1, <2>1, <2>3
    <3>2. ~Concurrent
      BY <2>1, <3>1 DEF Undetected
    <3> QED
      BY <2>1, <3>1, <3>2 DEF IInv, CoInv
  <2> QED
    BY <2>2, <2>3
<1>7. record.st = "STAGING" => Dead
  <2> SUFFICES ASSUME record.st = "STAGING", ~Dead PROVE FALSE
    OBVIOUS
  <2>1. /\ record.epoch = co.epoch /\ record.ts = co.hwts /\ record.writes = co.keys /\ co.par
        /\ co.err # "retry"
    BY DEF IInv, StagingInv, Current
  <2>2. DeadBatch
    BY <1>1, <1>4, <1>5, <2>1
  <2> QED
    BY <2>1, <2>2 DEF Dead, DeadBatch
<1> QED
  BY <1>1, <1>2, <1>5, <1>6, <1>7

LEMMA RefreshKeepsIInv ==
  ASSUME IInv, TypeOK', PushInv', Refresh
  PROVE  IInv'
<1>1. PICK c : c = [co EXCEPT !.rts = co.wts, !.par = FALSE]
  OBVIOUS
<1>2. Finished /\ BatchErr = "retry" /\ co' = Prepare(c) /\ UNCHANGED <<server, net>>
  BY <1>1 DEF Refresh
<1>3. /\ co.pc = "commit" /\ ~Doomed /\ net = {} /\ ~Committed /\ (record.st = "STAGING" => Dead)
      /\ co.par /\ co.err # "retry" => co.hwts < co.wts
  BY <1>2, RetriedIsOff
<1>4. c \in Coord
  BY <1>1 DEF IInv, TypeOK, Coord
<1>5. /\ c.epoch = co.epoch /\ c.wts = co.wts /\ c.rts = co.wts /\ c.fwd = co.fwd
      /\ c.told = co.told /\ c.keys = co.keys /\ c.piped = co.piped /\ c.batch = co.batch
      /\ c.old = co.old /\ c.par = FALSE
  BY <1>1 DEF IInv, TypeOK, Coord
<1>6. /\ co.wts \in Nat /\ co.hwts \in Nat /\ co.epoch \in Nat /\ co.hwts <= co.wts /\ 0 < co.wts
      /\ co.keys = co.piped \cup co.batch /\ co.piped \cap co.batch = {}
      /\ co.keys \cup co.old # {}
  BY <1>3, Clocks, SMTT(30), Z3 DEF IInv, CoInv
<1>7. co'.epoch = co.epoch /\ co'.hwts = co.wts /\ co'.par = FALSE /\ co'.pc = "commit"
  BY <1>2, <1>4, <1>5, PrepareFacts
<1>8. ASSUME NEW e \in Nat, NEW ts \in Nat, Superseded(co, e, ts) \/ Current(co, e, ts)
      PROVE  Superseded(co', e, ts) /\ (e < co.epoch \/ ts < co.wts)
  BY <1>3, <1>6, <1>7, <1>8, SMTT(30), Z3 DEF Superseded, Current
<1>9. 0 < c.rts /\ c.rts <= c.wts
  BY <1>5, <1>6, SMT, Z3
<1> QED
  BY <1>2, <1>3, <1>4, <1>5, <1>6, <1>8, <1>9, PreparedKeeps

LEMMA RestartKeepsIInv ==
  ASSUME IInv, TypeOK', PushInv', Restart
  PROVE  IInv'
<1>1. /\ Finished /\ BatchErr \in {"retry", "missing", "absent"} /\ co' = NextEpoch(co)
      /\ UNCHANGED <<server, net>>
  BY DEF Restart
<1>2. /\ co.pc = "commit" /\ ~Doomed /\ net = {} /\ ~Committed /\ (record.st = "STAGING" => Dead)
  BY <1>1, RetriedIsOff
<1>3. PICK k \in Key : TRUE
  BY <1>2, Fields DEF IInv, CoInv
<1>4. UNCHANGED <<record, tombstone, intent, tscache, mine, seen, outcomes, cleaned, recovery>>
  BY <1>1 DEF server
<1>5. /\ co'.pc = "run" /\ co'.epoch = co.epoch + 1 /\ co'.rts = co'.wts /\ co'.fwd = co.fwd
      /\ co'.keys = {} /\ co'.piped = {} /\ co'.par = FALSE /\ co'.ended = FALSE /\ co'.hrts = 0
      /\ co'.hwts = 0 /\ co'.pend = {} /\ co'.amb = {} /\ co'.err = "none" /\ co'.qerr = "none"
      /\ co'.staged = 0 /\ co'.told = co.told /\ co'.wts = co.wts
  <2>1. co \in Coord
    BY DEF IInv, TypeOK
  <2> QED
    BY <1>1, <2>1 DEF Coord, NextEpoch
<1>6. Wrote(k) /\ co.wts <= co'.wts
  BY <1>4, <1>5, Clocks, SMT, Z3 DEF IInv, Wrote
<1> QED
  BY <1>1, <1>2, <1>4, <1>5, <1>6, NextEpochKeeps

=============================================================================
