---------------------------- MODULE MCReplaceSaga ----------------------------
(* ReplaceSaga with its bounds given by the configurations. *)
EXTENDS ReplaceSaga
=============================================================================
