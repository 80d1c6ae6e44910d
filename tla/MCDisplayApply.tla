---- MODULE MCDisplayApply ----
(* One application, with the failures of the pipe and the device bounded. *)
EXTENDS DisplayApply
====
