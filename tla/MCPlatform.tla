----------------------------- MODULE MCPlatform -----------------------------
(* Instances of Platform for TLC.                                          *)
EXTENDS Platform, TLC

CONSTANTS n1
=============================================================================
