----------------------------- MODULE AtLeastOnce -----------------------------
(***************************************************************************)
(* What a service's outbox and publisher promise to the consumers of its   *)
(* streams, whatever call fails in between: an entry is made only of an    *)
(* event whose transaction has committed; an event may be added several    *)
(* times, until the publisher settles it, which takes an entry of it; and  *)
(* a settled event is settled for good and never added again.              *)
(***************************************************************************)
EXTENDS Naturals

CONSTANT Items  \* the events a service may announce

VARIABLES saved,    \* those whose transaction has committed
          entries,  \* entries of the streams, per event
          settled   \* events the publisher is done with

vars == <<saved, entries, settled>>

Init == /\ saved = {}
        /\ entries = [i \in Items |-> 0]
        /\ settled = {}

\* A transaction that announces i commits.
Save(i) ==
    /\ i \notin saved
    /\ saved' = saved \cup {i}
    /\ UNCHANGED <<entries, settled>>

\* Add an entry of i, which may already have some.
Add(i) ==
    /\ i \in saved \ settled
    /\ entries' = [entries EXCEPT ![i] = @ + 1]
    /\ UNCHANGED <<saved, settled>>

\* Settle a batch of events.
Settle(batch) ==
    /\ \A i \in batch : entries[i] >= 1
    /\ settled' = settled \cup batch
    /\ UNCHANGED <<saved, entries>>

Next == \/ \E i \in Items : Save(i) \/ Add(i)
        \/ \E batch \in SUBSET (saved \ settled) : Settle(batch)

Spec == Init /\ [][Next]_vars
=============================================================================
