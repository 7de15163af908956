------------------------------ MODULE MCPlatform -------------------------------
(* Finite instances of Platform for TLC. *)
EXTENDS Platform
================================================================================
