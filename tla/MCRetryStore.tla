---------------------------- MODULE MCRetryStore -----------------------------
(* Instances of RetryStore for TLC. *)
EXTENDS RetryStore, TLC

Symmetric == Permutations(Ops) \cup Permutations(Devices)

=============================================================================
