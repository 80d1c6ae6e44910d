-------------------------- MODULE MCSingleInstance --------------------------
(* Three launches of this build and one of a build without the lease. *)
EXTENDS SingleInstance, TLC

Symmetry == Permutations(Launchers)
=============================================================================
