--------------------------- MODULE MCFirmwareUpdate ---------------------------
(* Instances of FirmwareUpdate for TLC. *)
EXTENDS FirmwareUpdate

=============================================================================
