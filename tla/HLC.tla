-------------------------------- MODULE HLC --------------------------------
(***************************************************************************)
(* The hybrid logical clock of a node and its persisted upper bound, over  *)
(* crashes and restarts of the node.                                       *)
(*   util/hlc/hlc.go, and its use in server/server.go, server/node.go and  *)
(*   kvserver/store.go                                                     *)
(*                                                                         *)
(* Threads read the physical clock before they take the clock's mutex, so  *)
(* that what they bring may be old.  lastPhysicalTime and the checks for   *)
(* jumps, which warn or stop the process, are left out: the process may    *)
(* stop at any time.                                                       *)
(***************************************************************************)
EXTENDS Integers

CONSTANTS
  Thread,
  Store,
  None,         \* no reading of the physical clock
  Delta,        \* 3 * persistInterval, for the intervals that are configured
  StartDelta,   \* the 5 seconds of startPersistingHLCUpperBound
  MaxOffset,    \* of the other nodes' clocks
  MaxTime, MaxLogical, MaxJumps,   \* bounds
  Prompt        \* is a bound persisted before the clock reaches it?

ASSUME HLCAssumption ==
  /\ Store # {}
  /\ MaxTime \in Nat \ {0} /\ MaxLogical \in Nat /\ MaxJumps \in Nat /\ MaxOffset \in Nat
  /\ StartDelta \in Nat \ {0} /\ Delta \subseteq Nat \ {0}
  /\ None \notin Nat
  /\ Prompt \in BOOLEAN

VARIABLES
  phys,      \* the physical clock
  read,      \* per thread: what it read there
  clock,     \* c.mu.timestamp
  bound,     \* c.mu.wallTimeUpperBound, 0: none
  disk,      \* per store: the persisted bound, 0: none
  node,      \* "down", "starting", "up"
  persist,   \* the writer of the bound: [st, target, todo]
  high,      \* the highest timestamp of earlier incarnations
  covered,   \* was there a bound when the last incarnation ended?
  jumps

clockVars == <<phys, read, clock, bound, disk, node, persist, high, covered, jumps>>

Timestamp == [wall : 0 .. (MaxTime + MaxOffset), logical : 0 .. MaxLogical]
Zero == [wall |-> 0, logical |-> 0]
Less(a, b) == a.wall < b.wall \/ (a.wall = b.wall /\ a.logical < b.logical)
Idle == [st |-> "idle", target |-> 0, todo |-> {}]
Write(b) == [st |-> "writing", target |-> b, todo |-> Store]
Writing == persist.st = "writing"
Resetting == Writing /\ persist.target = 0

(***************************************************************************)
(* The physical clock, which may jump back.                                *)
(***************************************************************************)
Tick ==
  /\ phys < MaxTime
  /\ phys' = phys + 1
  /\ UNCHANGED <<read, clock, bound, disk, node, persist, high, covered, jumps>>

JumpBack ==
  /\ jumps < MaxJumps /\ phys > 1
  /\ phys' \in 1 .. (phys - 1)
  /\ jumps' = jumps + 1
  /\ UNCHANGED <<read, clock, bound, disk, node, persist, high, covered>>

ReadPhysical(t) ==
  /\ node # "down" /\ read[t] = None
  /\ read' = [read EXCEPT ![t] = phys]
  /\ UNCHANGED <<phys, clock, bound, disk, node, persist, high, covered, jumps>>

(***************************************************************************)
(* Clock.                                                                  *)
(***************************************************************************)
\* A mutant: a wall time equal to the physical clock restarts the logical one.
NowValueStrict(p) ==
  IF clock.wall > p THEN [clock EXCEPT !.logical = @ + 1] ELSE [wall |-> p, logical |-> 0]

NowValue(p) ==
  IF clock.wall >= p THEN [clock EXCEPT !.logical = @ + 1] ELSE [wall |-> p, logical |-> 0]

UpdateValue(rt) == IF Less(clock, rt) THEN rt ELSE clock

\* enforceWallTimeWithinBoundLocked lets the new value pass.
WithinBound(v) == bound # 0 => v.wall <= bound

\* The assumption Prompt: the clock does not overtake the bound that is being
\* written, which is Delta ahead.
NotOvertaken(v) == Prompt /\ Writing /\ ~Resetting => v.wall <= persist.target

\* The process is gone, and with it what is not on disk.
Die ==
  /\ node' = "down"
  /\ IF node = "up"
     THEN high' = clock /\ covered' = (bound # 0 /\ ~Resetting)
     ELSE UNCHANGED <<high, covered>>
  /\ clock' = Zero /\ bound' = 0
  /\ persist' = [st |-> "none", target |-> 0, todo |-> {}]
  /\ read' = [t \in Thread |-> None]
  /\ UNCHANGED <<phys, disk, jumps>>

\* The clock takes the value v; log.Fatalf when it is above the bound.
Set(v) == WithinBound(v) /\ NotOvertaken(v) /\ clock' = v
Fatal(v) == ~WithinBound(v) /\ Die

Now(t) ==
  LET v == NowValue(read[t]) IN
  /\ node # "down" /\ read[t] # None /\ clock.logical < MaxLogical
  /\ \/ /\ Set(v)
        /\ read' = [read EXCEPT ![t] = None]
        /\ UNCHANGED <<phys, bound, disk, node, persist, high, covered, jumps>>
     \/ Fatal(v)

\* Update, with a timestamp of another node: of a response or a Raft command.
Update(rt) ==
  /\ node # "down" /\ rt.wall <= phys + MaxOffset
  /\ Less(clock, rt)
  /\ \/ /\ Set(UpdateValue(rt))
        /\ UNCHANGED <<phys, read, bound, disk, node, persist, high, covered, jumps>>
     \/ Fatal(UpdateValue(rt))

\* UpdateAndCheckMaxOffset, with the timestamp of a request.
UpdateAndCheckMaxOffset(t, rt) ==
  LET p == read[t]
      v == UpdateValue(IF p > rt.wall THEN [wall |-> p, logical |-> 0] ELSE rt) IN
  /\ node # "down" /\ p # None /\ rt.wall <= phys + MaxOffset
  /\ \/ /\ \/ MaxOffset > 0 /\ rt.wall - p > MaxOffset /\ UNCHANGED clock
           \/ (MaxOffset = 0 \/ rt.wall - p <= MaxOffset) /\ Set(v)
        /\ read' = [read EXCEPT ![t] = None]
        /\ UNCHANGED <<phys, bound, disk, node, persist, high, covered, jumps>>
     \/ (MaxOffset = 0 \/ rt.wall - p <= MaxOffset) /\ Fatal(v)

(***************************************************************************)
(* The upper bound.                                                        *)
(***************************************************************************)
\* A mutant: the new bound counts before it is on disk.
RefreshHLCUpperBoundFirst(t, delta) ==
  LET v == NowValue(read[t]) IN
  /\ node = "up" /\ read[t] # None /\ clock.logical < MaxLogical
  /\ \/ /\ WithinBound(v) /\ clock' = v
        /\ read' = [read EXCEPT ![t] = None]
        /\ persist' = Write(v.wall + delta)
        /\ bound' = v.wall + delta
        /\ UNCHANGED <<phys, disk, node, high, covered, jumps>>
     \/ Fatal(v)

\* Begins with Now and goes on with WriteHLCUpperBound.
RefreshHLCUpperBound(t, delta) ==
  LET v == NowValue(read[t]) IN
  /\ node = "up" /\ read[t] # None /\ clock.logical < MaxLogical
  /\ \/ /\ WithinBound(v) /\ clock' = v
        /\ read' = [read EXCEPT ![t] = None]
        /\ persist' = Write(v.wall + delta)
        /\ UNCHANGED <<phys, bound, disk, node, high, covered, jumps>>
     \/ Fatal(v)

\* startPersistingHLCUpperBound, once the node runs.
StartPersisting(t) ==
  /\ persist.st = "none"
  /\ \/ (\E s \in Store : disk[s] > 0) /\ RefreshHLCUpperBound(t, StartDelta)
     \/ /\ node = "up" /\ \A s \in Store : disk[s] = 0
        /\ persist' = Idle
        /\ UNCHANGED <<phys, read, clock, bound, disk, node, high, covered, jumps>>

\* A new interval, or a tick.
PersistHLCUpperBound(t, delta) ==
  /\ persist.st = "idle"
  /\ RefreshHLCUpperBound(t, delta)

ResetHLCUpperBound ==
  /\ node = "up" /\ persist.st = "idle"
  /\ persist' = Write(0)
  /\ UNCHANGED <<phys, read, clock, bound, disk, node, high, covered, jumps>>

\* SetHLCUpperBound: one store after the other.  An error is fatal (Crash).
WriteHLCUpperBound(s) ==
  /\ Writing /\ s \in persist.todo
  /\ disk' = [disk EXCEPT ![s] = persist.target]
  /\ persist' = [persist EXCEPT !.todo = @ \ {s}]
  /\ UNCHANGED <<phys, read, clock, bound, node, high, covered, jumps>>

\* The end of persistHLCUpperBound.
SetInMemory ==
  /\ Writing /\ persist.todo = {}
  /\ bound' = persist.target
  /\ persist' = Idle
  /\ UNCHANGED <<phys, read, clock, disk, node, high, covered, jumps>>

(***************************************************************************)
(* The node.                                                               *)
(***************************************************************************)
Crash == node # "down" /\ Die

Start ==
  /\ node = "down"
  /\ node' = "starting"
  /\ UNCHANGED <<phys, read, clock, bound, disk, persist, high, covered, jumps>>

NoBound == \A s \in Store : disk[s] = 0

\* A mutant: the wait ends at the bound, not above it.
EnsureClockMonotonicityAtBound(t) ==
  /\ node = "starting" /\ read[t] # None /\ clock.logical < MaxLogical
  /\ NoBound \/ \A s \in Store : disk[s] <= clock.wall
  /\ clock' = NowValue(read[t])
  /\ node' = "up"
  /\ read' = [read EXCEPT ![t] = None]
  /\ UNCHANGED <<phys, bound, disk, persist, high, covered, jumps>>

\* When a store has a bound, the node sleeps (and calls Now) until the clock is
\* at prevHLCUpperBound + 1.  Then it takes its first timestamp and starts.
EnsureClockMonotonicity(t) ==
  /\ node = "starting" /\ read[t] # None /\ clock.logical < MaxLogical
  /\ NoBound \/ \A s \in Store : disk[s] + 1 <= clock.wall
  /\ clock' = NowValue(read[t])
  /\ node' = "up"
  /\ read' = [read EXCEPT ![t] = None]
  /\ UNCHANGED <<phys, bound, disk, persist, high, covered, jumps>>

ClockInit ==
  /\ phys = 1
  /\ read = [t \in Thread |-> None]
  /\ clock = Zero
  /\ bound = 0
  /\ disk = [s \in Store |-> 0]
  /\ node = "down"
  /\ persist = [st |-> "none", target |-> 0, todo |-> {}]
  /\ high = Zero
  /\ covered = FALSE
  /\ jumps = 0

ClockNext ==
  \/ Tick \/ JumpBack
  \/ \E t \in Thread : \/ ReadPhysical(t) \/ Now(t) \/ EnsureClockMonotonicity(t)
                       \/ StartPersisting(t)
                       \/ \E rt \in Timestamp : UpdateAndCheckMaxOffset(t, rt)
                       \/ \E d \in Delta : PersistHLCUpperBound(t, d)
  \/ \E rt \in Timestamp : Update(rt)
  \/ ResetHLCUpperBound \/ SetInMemory
  \/ \E s \in Store : WriteHLCUpperBound(s)
  \/ Crash \/ Start

ClockSpec == ClockInit /\ [][ClockNext]_clockVars

(***************************************************************************)
(* Properties.                                                             *)
(***************************************************************************)
ClockTypeOK ==
  /\ phys \in 1 .. MaxTime /\ jumps \in 0 .. MaxJumps
  /\ read \in [Thread -> (1 .. MaxTime) \cup {None}]
  /\ clock \in Timestamp /\ high \in Timestamp
  /\ bound \in Nat /\ disk \in [Store -> Nat]
  /\ node \in {"down", "starting", "up"}
  /\ persist \in [st : {"none", "idle", "writing"}, target : Nat, todo : SUBSET Store]
  /\ covered \in BOOLEAN

\* While the process lives its clock never goes back, and what Now returns is
\* above everything before, although a thread brings a reading of the physical
\* clock from before it got the mutex.
NowIncreases ==
  [][node # "down" /\ node' # "down" =>
       /\ clock' = clock \/ Less(clock, clock')
       /\ (\E t \in Thread : Now(t)) => Less(clock, clock')]_clockVars

\* The bound that counts is kept, and a store has it or a later one, so that a
\* crash between any two steps finds it: "it is guaranteed to be higher than any
\* wall time used by the HLC" (store.go:2028-2029).
BoundCovers ==
  node = "up" /\ bound # 0 =>
    /\ clock.wall <= bound
    /\ Resetting \/ \E s \in Store : clock.wall <= disk[s]

\* "If this value is persisted, HLC wall clock monotonicity is guaranteed across
\* server restarts" (store.go:2029-2031): a node that had a bound in force when
\* it went down comes back with timestamps above all it ever had, wherever its
\* physical clock is now.
RestartMonotone == node = "up" /\ covered => Less(high, clock)

\* "Now that we have a monotonic HLC wrt previous incarnations of the process"
\* (server.go:1411), bound or no bound.
MonotoneWithoutBound == node = "up" => high = Zero \/ Less(high, clock)
============================================================================
