---------------------------- MODULE AtomicCommit ----------------------------
(***************************************************************************)
(* What a transaction promises, whoever ends it: one decision; values that *)
(* become visible only after a commit, all of one attempt and at one       *)
(* timestamp; and a client that is not misled.  The decision is never      *)
(* taken back, with one exception: a client that was told nothing certain  *)
(* rolls back, and that undoes a commit nobody has seen anything of.       *)
(* Module TxnCommit implements it with records, intents, parallel commits  *)
(* and recoveries.                                                         *)
(***************************************************************************)
CONSTANTS
  Key,
  Nothing    \* no value on a key

VARIABLES
  decision,  \* "open", "committed" or "aborted"
  visible,   \* per key: the transaction's committed value, or Nothing
  told       \* what the client was told

vars == <<decision, visible, told>>

\* Errors after which a client may run the transaction again.
Failed == {"aborted", "error", "rolledback"}

Init ==
  /\ decision = "open"
  /\ visible = [k \in Key |-> Nothing]
  /\ told = "none"

Commit ==
  /\ decision = "open" /\ told \notin Failed
  /\ decision' = "committed"
  /\ UNCHANGED <<visible, told>>

Abort ==
  /\ decision = "open" /\ told # "committed"
  /\ decision' = "aborted"
  /\ UNCHANGED <<visible, told>>

\* A value is [epoch, ts]: the same for all keys.
Install(k) ==
  /\ decision = "committed" /\ visible[k] = Nothing
  /\ \A j \in Key \ {k} : visible'[j] = visible[j] /\ visible[j] \in {Nothing, visible'[k]}
  /\ DOMAIN visible' = Key
  /\ UNCHANGED <<decision, told>>

Tell ==
  /\ told = "none"
  /\ told' \in {"committed", "unexpected"} => decision = "committed"
  /\ told' \in Failed => decision # "committed"
  /\ UNCHANGED <<decision, visible>>

\* The rollback of a client whose commit ended in an ambiguous error.
Retract ==
  /\ decision = "committed" /\ told = "ambiguous"
  /\ visible = [k \in Key |-> Nothing]
  /\ decision' = "aborted"
  /\ UNCHANGED <<visible, told>>

Next == Commit \/ Abort \/ Retract \/ (\E k \in Key : Install(k)) \/ Tell

Spec == Init /\ [][Next]_vars
=============================================================================
