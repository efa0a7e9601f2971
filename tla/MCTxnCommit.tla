----------------------------- MODULE MCTxnCommit -----------------------------
(***************************************************************************)
(* Instances of TxnCommit.  A scenario says whether the transaction has    *)
(* reads to refresh, and names the disturbances that may happen, once      *)
(* each; a run explores one or several of them.                            *)
(***************************************************************************)
EXTENDS TxnCommit, TLC

Budget(ds) ==
  [d \in {"lost", "failed", "bump", "foreign", "refresh", "lease", "restart"} |->
     IF d \in ds THEN 1 ELSE 0]

Reading(ds) == [fwd |-> FALSE, budget |-> Budget(ds)]
Blind(ds)   == [fwd |-> TRUE, budget |-> Budget(ds)]

MCCommit   == {Reading({"failed", "bump"}),
               Reading({"failed", "refresh"}),
               Reading({"refresh", "lease"}),
               Reading({"restart"})}
MCConflict == {Reading({"foreign", "bump", "refresh"}),
               Reading({"foreign", "refresh", "restart"}),
               Blind({"foreign", "bump", "refresh"}),
               Reading({"lost", "bump", "refresh"})}
MCResend   == {Reading({"lost", "failed"})}
MCLost     == {Reading({"lost", "bump"})}
MCReplay   == {Reading({"lost", "foreign"})}

Symmetry == Permutations(Key) \cup Permutations(Recoverer)
=============================================================================
