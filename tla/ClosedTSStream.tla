--------------------------- MODULE ClosedTSStream ---------------------------
(***************************************************************************)
(* How the closed timestamps of one node (the origin) reach another node   *)
(* (the follower): the bucketed storage (closedts/storage), the provider   *)
(* that adds to it and feeds subscriptions (closedts/provider), and the    *)
(* streams between nodes (closedts/transport).                             *)
(*                                                                         *)
(* An hlc.Timestamp is encoded as wall * Ticks + logical, so that Ticks is *)
(* the number of logical ticks a wall time can have.  As in MinPropTracker *)
(* 0 in an MLAI map stands for "not found".                                *)
(***************************************************************************)
EXTENDS Integers, Sequences, FiniteSets

CONSTANTS
  RangeID,
  MaxEpoch, MaxTS, MaxLAI,  \* bounds on what the closer produces
  MaxEntries,               \* bound on the number of entries it produces
  Ticks,
  NumBuckets, Scale,        \* arguments of NewMemStorage
  MaxConns                  \* bound on the streams ever opened

ASSUME StreamConstants ==
  /\ MaxEpoch \in Nat \ {0} /\ MaxTS \in Nat /\ MaxLAI \in Nat
  /\ MaxEntries \in Nat /\ Ticks \in Nat \ {0} /\ MaxConns \in Nat
  /\ NumBuckets \in Nat \ {0} /\ Scale \in Nat

VARIABLES
  storage,   \* what each of the two nodes stores about the origin
  closer,    \* the node's epoch; epoch and timestamp of the closer's last entry
  notifying, \* the entry the origin has stored but not yet queued, or {}
  conn,      \* the streams, in the order in which they are opened
  history    \* every entry the closer has produced

vars == <<storage, closer, notifying, conn, history>>

Node  == {"origin", "follower"}
MLAI  == [RangeID -> 0 .. MaxLAI]
Entry == [epoch : 0 .. MaxEpoch, ts : 0 .. MaxTS, mlai : MLAI]

EmptyEntry == [epoch |-> 0, ts |-> 0, mlai |-> [r \in RangeID |-> 0]]
NoBuckets  == [i \in 1 .. NumBuckets |-> EmptyEntry]

(* A stream.  The server registers the subscription, then takes a snapshot  *)
(* of its storage; out is what it still has to send, in order.  The client  *)
(* hands each entry it receives to a goroutine that adds it to the storage. *)
(* A stream is "closed" when the client has given it up.                    *)
Conn == [state : {"registered", "streaming", "closed"},
         out : Seq(Entry), handed : SUBSET Entry]

-----------------------------------------------------------------------------
WallTime(ts) == ts \div Ticks
Max2(a, b) == IF a < b THEN b ELSE a

MergeTakesNewer(e, ee) ==
  CASE e.epoch < ee.epoch -> ee
    [] e.epoch > ee.epoch -> e
    [] OTHER -> [epoch |-> e.epoch, ts |-> Max2(e.ts, ee.ts), mlai |-> ee.mlai]

(* merge: the newer epoch wins; at one epoch, the larger timestamp with the *)
(* larger of each range's MLAIs.                                            *)
merge(e, ee) ==
  CASE e.epoch < ee.epoch -> ee
    [] e.epoch > ee.epoch -> e
    [] OTHER -> [epoch |-> e.epoch, ts |-> Max2(e.ts, ee.ts),
                 mlai |-> [r \in RangeID |-> Max2(e.mlai[r], ee.mlai[r])]]

bucketMaxAge(i) == IF i = 1 THEN 0 ELSE 2 ^ (i - 2) * Scale

(* memStorage.Add: the entry is merged into the first bucket and what that  *)
(* held moves on to the next, up to the first bucket that is young enough   *)
(* compared to the entry.                                                   *)
Add(buckets, e) ==
  LET Old(i)   == WallTime(e.ts) - WallTime(buckets[i].ts) > bucketMaxAge(i)
      Moves(i) == \A j \in 1 .. i : Old(j)
  IN [i \in 1 .. NumBuckets |->
        IF Moves(i) THEN merge(buckets[i], IF i = 1 THEN e ELSE buckets[i - 1])
                    ELSE buckets[i]]

(* VisitAscending: the non-empty buckets, oldest first.  visit[i] is what it  *)
(* sees from the i-th on.                                                   *)
VisitAscending(buckets) ==
  LET visit[i \in 0 .. NumBuckets] ==
        IF i = 0 THEN <<>>
        ELSE (IF buckets[i].epoch = 0 THEN <<>> ELSE <<buckets[i]>>) \o visit[i - 1]
  IN visit[NumBuckets]

MaxClosedAnyEpoch(buckets, r, epoch, lai) ==
  LET usable == {i \in 1 .. NumBuckets : /\ buckets[i].mlai[r] # 0
                                         /\ buckets[i].mlai[r] <= lai}
  IN IF usable = {} THEN 0
     ELSE buckets[CHOOSE i \in usable : \A j \in usable : i <= j].ts

(* MaxClosed, visiting the buckets newest first: the first that can be used *)
(* by a replica with applied index lai.  An empty bucket ends the visit.    *)
MaxClosed(buckets, r, epoch, lai) ==
  LET Usable(i) == /\ \A j \in 1 .. i : buckets[j].epoch # 0
                   /\ buckets[i].mlai[r] # 0
                   /\ buckets[i].epoch = epoch /\ buckets[i].mlai[r] <= lai
      usable == {i \in 1 .. NumBuckets : Usable(i)}
  IN IF usable = {} THEN 0
     ELSE buckets[CHOOSE i \in usable : \A j \in usable : i <= j].ts

-----------------------------------------------------------------------------
Init ==
  /\ storage = [n \in Node |-> NoBuckets]
  /\ closer = [epoch |-> 1, lastEpoch |-> 1, ts |-> 0]
  /\ notifying = {}
  /\ conn = <<>>
  /\ history = {}

Live(c) == conn[c].state # "closed"

(* runCloser, and the goroutine of Notify up to its Storage.Add.  What the  *)
(* closer gets from the tracker never goes back, in epoch or in time.  The  *)
(* tracker returns no MLAIs when it repeats itself, which it does only at   *)
(* one epoch, nor for the timestamp it is created with.                     *)
CloseAndAdd(e) ==
  /\ notifying = {}
  /\ Cardinality(history) < MaxEntries /\ e \notin history
  /\ e.epoch >= closer.epoch
  /\ \/ e.ts > closer.ts /\ (WallTime(e.ts) = 0 => e.mlai = EmptyEntry.mlai)
     \/ e.ts = closer.ts /\ e.epoch = closer.lastEpoch /\ e.mlai = EmptyEntry.mlai
  /\ closer' = [epoch |-> e.epoch, lastEpoch |-> e.epoch, ts |-> e.ts]
  /\ history' = history \cup {e}
  /\ storage' = [storage EXCEPT !["origin"] = Add(@, e)]
  /\ notifying' = {e}
  /\ UNCHANGED conn

(* The rest of the goroutine of Notify: the entry is queued for everyone    *)
(* who is subscribed by now.                                                *)
Notify ==
  \E e \in notifying :
    /\ conn' = [c \in DOMAIN conn |->
                  IF Live(c) THEN [conn[c] EXCEPT !.out = Append(@, e)] ELSE conn[c]]
    /\ notifying' = {}
    /\ UNCHANGED <<storage, closer, history>>

SubscribeOnce ==
  /\ conn = <<>>
  /\ conn' = Append(conn, [state |-> "registered", out |-> <<>>, handed |-> {}])
  /\ UNCHANGED <<storage, closer, notifying, history>>

(* getOrCreateClient: a node has one client per origin; the server's Get    *)
(* starts Subscribe, which registers.                                       *)
Subscribe ==
  /\ Len(conn) < MaxConns
  /\ \A c \in DOMAIN conn : ~Live(c)
  /\ conn' = Append(conn, [state |-> "registered", out |-> <<>>, handed |-> {}])
  /\ UNCHANGED <<storage, closer, notifying, history>>

(* Subscribe, once registered: the snapshot is sent ahead of the queue. *)
Snapshot(c) ==
  /\ conn[c].state = "registered"
  /\ conn' = [conn EXCEPT ![c].state = "streaming",
                          ![c].out = VisitAscending(storage["origin"]) \o @]
  /\ UNCHANGED <<storage, closer, notifying, history>>

(* Get sends an entry, and the client hands it over. *)
Recv(c) ==
  /\ conn[c].state = "streaming" /\ conn[c].out # <<>> /\ conn[c].handed = {}
  /\ conn' = [conn EXCEPT ![c].out = Tail(@), ![c].handed = {Head(conn[c].out)}]
  /\ UNCHANGED <<storage, closer, notifying, history>>

(* Get's timer fires: it sends an empty entry. *)
RecvEmpty(c) ==
  /\ Live(c) /\ conn[c].handed = {}
  /\ conn' = [conn EXCEPT ![c].handed = {EmptyEntry}]
  /\ UNCHANGED <<storage, closer, notifying, history>>

(* The goroutine of Notify for another node's entries.  It outlives its     *)
(* stream: an entry may be added after a newer stream has begun.            *)
FollowerAdd(c) ==
  \E e \in conn[c].handed :
    /\ storage' = [storage EXCEPT !["follower"] = Add(@, e)]
    /\ conn' = [conn EXCEPT ![c].handed = {}]
    /\ UNCHANGED <<closer, notifying, history>>

(* The stream breaks; what was on its way is lost. *)
Disconnect(c) ==
  /\ Live(c) /\ Len(conn) < MaxConns
  /\ conn' = [conn EXCEPT ![c].state = "closed", ![c].out = <<>>]
  /\ UNCHANGED <<storage, closer, notifying, history>>

(* The follower's process restarts with an empty storage. *)
FollowerRestart ==
  /\ Len(conn) < MaxConns
  /\ storage' = [storage EXCEPT !["follower"] = NoBuckets]
  /\ conn' = [c \in DOMAIN conn |->
                [state |-> "closed", out |-> <<>>, handed |-> {}]]
  /\ UNCHANGED <<closer, notifying, history>>

(* The origin's process restarts: its storage is empty, and its first       *)
(* heartbeat increments its epoch.  FollowerReads looks at what the origin  *)
(* may do in between.                                                       *)
OriginRestart ==
  /\ Len(conn) < MaxConns /\ closer.epoch < MaxEpoch
  /\ storage' = [storage EXCEPT !["origin"] = NoBuckets]
  /\ closer' = [closer EXCEPT !.epoch = @ + 1]
  /\ notifying' = {}
  /\ conn' = [c \in DOMAIN conn |-> [conn[c] EXCEPT !.state = "closed", !.out = <<>>]]
  /\ UNCHANGED history

Produced == [epoch : 1 .. MaxEpoch, ts : 0 .. MaxTS, mlai : MLAI]

Stream == \E c \in DOMAIN conn : Snapshot(c) \/ Recv(c)

Next ==
  \/ \E e \in Produced : CloseAndAdd(e)
  \/ Notify \/ Subscribe \/ Stream
  \/ \E c \in DOMAIN conn : RecvEmpty(c) \/ FollowerAdd(c) \/ Disconnect(c)
  \/ FollowerRestart \/ OriginRestart

Spec == Init /\ [][Next]_vars

(* Every goroutine keeps running, the client is asked for again whenever a  *)
(* follower read needs it, and streams stop breaking (the last never does). *)
FairSpec ==
  /\ Spec
  /\ WF_vars(Notify) /\ WF_vars(Subscribe)
  /\ \A c \in 1 .. MaxConns :
       /\ WF_vars(c \in DOMAIN conn /\ Snapshot(c))
       /\ SF_vars(c \in DOMAIN conn /\ Recv(c))
       /\ WF_vars(c \in DOMAIN conn /\ FollowerAdd(c))

-----------------------------------------------------------------------------
(* What the origin closed under an epoch up to a timestamp requires of a    *)
(* range: the largest of the MLAIs produced so far.                         *)
Required(epoch, ts, r) ==
  {e.mlai[r] : e \in {h \in history : h.epoch = epoch /\ h.ts <= ts}}

(* Whatever a bucket says, on either node and after any loss or restart,    *)
(* is gapless: it carries an MLAI for every range that was closed out up to *)
(* its timestamp, and none that is too small.                               *)
Gapless ==
  \A n \in Node, i \in 1 .. NumBuckets :
    LET b == storage[n][i] IN
    b.epoch # 0 => \A r \in RangeID : \A m \in Required(b.epoch, b.ts, r) :
                     m <= b.mlai[r]

(* What a follower read relies on.  When MaxClosed tells a replica that has *)
(* applied up to lai that a timestamp is closed, the replica has applied    *)
(* everything the origin closed out up to that timestamp under that epoch.  *)
MaxClosedSound ==
  \A n \in Node, r \in RangeID, epoch \in 1 .. MaxEpoch, lai \in 1 .. MaxLAI :
    \A m \in Required(epoch, MaxClosed(storage[n], r, epoch, lai), r) : m <= lai

(* However streams broke and processes restarted, once a stream stays up    *)
(* the follower's latest bucket becomes, and stays, the origin's.           *)
FollowerCatchesUp ==
  <>[](storage["origin"][1].epoch # 0 =>
         storage["follower"][1] = storage["origin"][1])

=============================================================================
