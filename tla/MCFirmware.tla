----------------------------- MODULE MCFirmware -----------------------------
(* Bounds for TLC. *)
EXTENDS Firmware
=============================================================================
