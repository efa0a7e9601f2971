--------------------------- MODULE MCFollowerReads ---------------------------
(* Instances of FollowerReads.  The callers of the tracker are              *)
(* interchangeable.                                                         *)
EXTENDS FollowerReads, TLC
Symmetry == Permutations(Proposal)
=============================================================================
