---------------------------- MODULE MCNetConfig ----------------------------
(* Values for NetConfig: a shell and the start at boot. *)
EXTENDS NetConfig
=============================================================================
