--------------------------- MODULE MCPingSession ---------------------------
(* Times and bounds for TLC. *)
EXTENDS PingSession
=============================================================================
