------------------------------- MODULE MCHLC -------------------------------
(* The clock of a node with two stores. *)
EXTENDS HLC, TLC
Symmetry == Permutations(Thread) \cup Permutations(Store)
============================================================================
