---------------------------- MODULE MCSupervisor ----------------------------
(* Values for Supervisor: the shell of a console.                          *)
EXTENDS Supervisor
=============================================================================
