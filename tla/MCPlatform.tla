----------------------------- MODULE MCPlatform -----------------------------
(* The platform with a quantum of a few instructions, so that it ends at     *)
(* every point of the main loop and of the handler.                          *)
EXTENDS Platform
=============================================================================
