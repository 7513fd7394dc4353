-------------------------- MODULE MCTelegramWorker --------------------------
(* Instances of TelegramWorker for TLC: what the events ask for.           *)
EXTENDS TelegramWorker

CONSTANTS e1, e2   \* events

MCMixed    == [e \in Ours |-> IF e = e1 THEN "ordinary" ELSE "reserved"]
=============================================================================
