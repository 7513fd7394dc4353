----------------------------- MODULE ExactlyOnce -----------------------------
(***************************************************************************)
(* What a worker that turns one event into one recorded effect promises to *)
(* the rest of the system, whatever the stream redelivers and whoever      *)
(* fails: the effect of an event is decided at most once and never         *)
(* changes, it is announced to the next service exactly once, by the same  *)
(* step that decides it, and the worker stops being responsible for the    *)
(* event (acknowledges an entry of it) only afterwards.                    *)
(***************************************************************************)
EXTENDS Naturals

CONSTANTS Jobs,      \* the events the worker is responsible for
          Effects,   \* what may be decided
          Undecided  \* none of Effects

VARIABLES effect,     \* the decision per job
          announced,  \* announcements of each effect, per job
          released    \* jobs an entry of which was acknowledged

vars == <<effect, announced, released>>

Init == /\ effect = [j \in Jobs |-> Undecided]
        /\ announced = [j \in Jobs |-> [x \in Effects |-> 0]]
        /\ released = {}

\* Decide the effect of j and announce it.
Settle(j, x) ==
    /\ effect[j] = Undecided
    /\ effect' = [effect EXCEPT ![j] = x]
    /\ announced' = [announced EXCEPT ![j][x] = @ + 1]
    /\ UNCHANGED released

\* Let go of j.
Release(j) ==
    /\ effect[j] # Undecided
    /\ released' = released \cup {j}
    /\ UNCHANGED <<effect, announced>>

Next == \E j \in Jobs : Release(j) \/ \E x \in Effects : Settle(j, x)

Spec == Init /\ [][Next]_vars
=============================================================================
