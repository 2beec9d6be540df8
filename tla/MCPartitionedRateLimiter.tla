---------------------- MODULE MCPartitionedRateLimiter ----------------------
(* Instances of PartitionedRateLimiter for TLC; calls and keys are each      *)
(* interchangeable.                                                          *)
EXTENDS PartitionedRateLimiter, TLC

Symmetry == Permutations(Calls) \cup Permutations(Keys)
=============================================================================
