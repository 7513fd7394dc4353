-------------------------- MODULE MCDeliveryWorker --------------------------
(* Instances of DeliveryWorker for TLC: what the events ask for, and the   *)
(* streams the liveness run follows.                                       *)
EXTENDS DeliveryWorker, SequencesExt

CONSTANTS e1, e2, e3, e4, e5   \* events

MCReserved  == [e \in Ours |-> "reserved"]
MCMalformed == [e \in Ours |-> IF e = e1 THEN "ordinary" ELSE "malformed"]

\* Every kind of payload; e5 is of the other channel.
MCAllKinds  == e1 :> "malformed" @@ e2 :> "failing" @@ e3 :> "reserved" @@ e4 :> "ordinary"

(***************************************************************************)
(* Bound of the liveness run: the entries that arrive, in any number and   *)
(* at any time, are the first ones of one of these streams.                *)
(***************************************************************************)
MCStreams == {<<e1, e4, Garbage>>,   \* two entries that fail, up to the limit, fill the
                                     \* listing, and a stranded one is behind them
              <<Garbage, e4>>,       \* a batch stranded by its first entry
              <<e5, e2>>,            \* a skipped entry, a simulated failure
              <<e3, e3>>}            \* an event published twice

Arriving == UNION {Prefixes(s) : s \in MCStreams}

\* Next, with the entries that arrive bounded.
MCNext == \/ \E w \in Workers : WorkerStep(w)
          \/ EnvironmentStep /\ UNCHANGED deliveryVars /\ stream' \in Arriving

MCFairSpec == Init /\ [][MCNext]_vars /\ Fairness
=============================================================================
