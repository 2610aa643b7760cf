---------------------------- MODULE MCMcpSession ----------------------------
(* McpSession on small instances. *)
EXTENDS McpSession, TLC
=============================================================================
