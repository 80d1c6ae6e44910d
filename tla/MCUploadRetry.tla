--------------------------- MODULE MCUploadRetry ---------------------------
(* Instances of UploadRetry for TLC. *)
EXTENDS UploadRetry, TLC

CONSTANTS o1, o2, d1, d2

Symmetric == Permutations(Ops)

=============================================================================
