---------------------------- MODULE MCMcpSessions ----------------------------
(* McpSessions with model values. *)
EXTENDS McpSessions
=============================================================================
