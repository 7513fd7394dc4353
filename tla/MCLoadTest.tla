----------------------------- MODULE MCLoadTest -----------------------------
(* Instances of LoadTest for TLC.                                          *)
EXTENDS LoadTest

CONSTANTS p1, p2
=============================================================================
