--------------------------- MODULE MCRoutingWorker ---------------------------
(* Instances of RoutingWorker for TLC: what the events name.               *)
EXTENDS RoutingWorker, TLC

CONSTANTS e1, e2, email

\* Both events name a configured channel; the cfg makes e2's payload
\* incomplete.
MCNamed == [e \in Events |-> email]
=============================================================================
