------------------------------ MODULE MCConsole ------------------------------
(* Instances of Console for TLC: the scenarios of one channel.             *)
EXTENDS Console

CONSTANTS n1, n2, email

MCScenarios == [channel : {email}, disable : BOOLEAN]
=============================================================================
