------------------------- MODULE MCRuntimeDowngrade -------------------------
(* Two launches, two runtimes, one upgrade or downgrade of the package. *)
EXTENDS RuntimeDowngrade
=============================================================================
