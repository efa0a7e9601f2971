-------------------------- MODULE MCClosedTSStream --------------------------
(* ClosedTSStream with the two buckets the container configures, one range, *)
(* and streams that break once.  Two wall times apart is older than Scale.  *)
EXTENDS ClosedTSStream
=============================================================================
