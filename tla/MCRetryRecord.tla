---------------------------- MODULE MCRetryRecord ----------------------------
(* Instances of RetryRecord for TLC. *)
EXTENDS RetryRecord, TLC

Symmetric == Permutations(Ops) \cup Permutations(Devices)

=============================================================================
