-------------------------- MODULE MCSharedSettings --------------------------
(* Two clients and one runtime with two devices, or with two pairs. *)
EXTENDS SharedSettings, TLC

Symmetry == Permutations(Clients) \cup Permutations(Devices) \cup Permutations(Names)
=============================================================================
