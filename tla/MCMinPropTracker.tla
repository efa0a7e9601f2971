------------------------- MODULE MCMinPropTracker ---------------------------
(* The tracker with a few proposals that are interchangeable. *)
EXTENDS MinPropTracker, TLC

Symmetry == Permutations(Proposal)

=============================================================================
