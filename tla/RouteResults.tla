---------------------------- MODULE RouteResults ----------------------------
(***************************************************************************)
(* The results consumer of routing-service: it closes the route of a       *)
(* notification on the delivery result, and skips the RoutingFailed that   *)
(* routing-service announced itself.  The recoverer of the same process    *)
(* serves its group too.  As in NotificationService, the group is a set of *)
(* entries, a transaction is one step, and the guard of set_status is in   *)
(* the UPDATE.  Who inserts routes and adds entries is left to the module  *)
(* that instantiates this one.                                             *)
(***************************************************************************)
EXTENDS Naturals, Ledger

CONSTANTS Notifications, Copies, MaxRetries, MaxFaults, NoEntry

VARIABLES
    route,        \* routes.status
    fail_reason,  \* routes.fail_reason
    unread,       \* entries of the two result streams not yet read
    pending,      \* those in the pending list of routing-results
    at,           \* where each task is
    cur,          \* the entry it is working on
    ledger,       \* processed_events of the group
    faults

rows == <<route, fail_reason>>
group == <<unread, pending>>
tasks == <<at, cur>>
vars == <<rows, group, tasks, ledger, faults>>

RouteStatus == {"PROCESSING", "COMPLETED", "FAILED"}
NoRoute == "no_route"
NoReason == "none"
Reasons == {NoReason, "delivery", "routing"}

\* STREAMS carry three types of event, HANDLED are those that close a route.
HANDLED == {"DeliveryCompleted", "DeliveryFailed"}
EventTypes == HANDLED \cup {"RoutingFailed"}

Events == [notification : Notifications, type : EventTypes]
Entries == [event : Events, copy : 1 .. Copies]

Tasks == {"results", "recoverer"}
Places == {"idle", "handle", "update", "count", "giveup", "ack"}

Fault == /\ faults < MaxFaults
         /\ faults' = faults + 1

NoFault == UNCHANGED faults

Event(w) == cur[w].event

Goto(w, place) == at' = [at EXCEPT ![w] = place] /\ UNCHANGED cur

Done(w) == /\ at' = [at EXCEPT ![w] = "idle"]
           /\ cur' = [cur EXCEPT ![w] = NoEntry]

\* Mutant: the consumer acknowledges in a finally clause.
RaiseAcks(w) == Goto(w, IF w = "recoverer" THEN "count" ELSE "ack")

\* handle() raised: the consumer leaves the entry pending, the recoverer counts.
Raise(w) == IF w = "recoverer" THEN Goto(w, "count") ELSE Done(w)

----------------------------------------------------------------------------
Init ==
    /\ route = [n \in Notifications |-> NoRoute]
    /\ fail_reason = [n \in Notifications |-> NoReason]
    /\ unread = {} /\ pending = {}
    /\ at = [w \in Tasks |-> "idle"]
    /\ cur = [w \in Tasks |-> NoEntry]
    /\ ledger = [event \in Events |-> NoRow]
    /\ faults = 0

\* The row the decision's transaction inserts: open if the notification is
\* routed, failed with its reason otherwise.
insert_route(n, reason) ==
    /\ route' = [route EXCEPT ![n] = IF reason = NoReason THEN "PROCESSING" ELSE "FAILED"]
    /\ fail_reason' = [fail_reason EXCEPT ![n] = reason]

\* The guarded UPDATE of set_status(): it matches the row or none.
set_status(n, new_status, allowed_from, reason) ==
    \/ /\ route[n] \in allowed_from
       /\ route' = [route EXCEPT ![n] = new_status]
       /\ fail_reason' = [fail_reason EXCEPT ![n] = reason]
    \/ route[n] \notin allowed_from /\ UNCHANGED rows

\* Mutant: any delivery result completes the route.
AlwaysCompleted(event) == "COMPLETED"

\* What handle() writes for an event.
NewStatus(event) == IF event.type = "DeliveryCompleted" THEN "COMPLETED" ELSE "FAILED"
FailReason(event) == IF event.type = "DeliveryCompleted" THEN NoReason ELSE "delivery"

----------------------------------------------------------------------------
\* XREADGROUP of one of the streams: the entry becomes pending, and reaches
\* the consumer unless the reply is lost or an entry before it raises.
Read(entry) ==
    /\ at["results"] = "idle"
    /\ entry \in unread
    /\ unread' = unread \ {entry}
    /\ pending' = pending \cup {entry}
    /\ \/ /\ at' = [at EXCEPT !["results"] = "handle"]
          /\ cur' = [cur EXCEPT !["results"] = entry]
          /\ NoFault
       \/ UNCHANGED tasks /\ Fault
    /\ UNCHANGED <<rows, ledger>>

\* The recoverer claims an entry that has been pending too long.
Claim(entry) ==
    /\ at["recoverer"] = "idle"
    /\ entry \in pending
    /\ at' = [at EXCEPT !["recoverer"] = "handle"]
    /\ cur' = [cur EXCEPT !["recoverer"] = entry]
    /\ UNCHANGED <<rows, group, ledger, faults>>

\* handle() up to the answer of is_processed(), or its return on an event that
\* is not HANDLED, before any call.
Check(w) ==
    /\ at[w] = "handle"
    /\ \/ /\ Event(w).type \notin HANDLED \/ is_processed(ledger[Event(w)])
          /\ Goto(w, "ack")
          /\ NoFault
       \/ /\ Event(w).type \in HANDLED
          /\ ~is_processed(ledger[Event(w)])
          /\ Goto(w, "update")
          /\ NoFault
       \/ Event(w).type \in HANDLED /\ Raise(w) /\ Fault
    /\ UNCHANGED <<rows, group, ledger>>

\* Mutant: the ledger row is committed on its own, before the route.
CommitMarkFirst(event) ==
    /\ \/ set_status(event.notification, NewStatus(event), {"PROCESSING"}, FailReason(event))
       \/ UNCHANGED rows
    /\ ledger' = [ledger EXCEPT ![event] = mark_processed(@)]

CommitUpdate(event) ==
    /\ set_status(event.notification, NewStatus(event), {"PROCESSING"}, FailReason(event))
    /\ ledger' = [ledger EXCEPT ![event] = mark_processed(@)]

\* The transaction that ends handle(), or one whose fate is unknown.
Update(w) ==
    /\ at[w] = "update"
    /\ \/ CommitUpdate(Event(w)) /\ Goto(w, "ack") /\ NoFault
       \/ /\ CommitUpdate(Event(w)) \/ UNCHANGED <<rows, ledger>>
          /\ Raise(w)
          /\ Fault
    /\ UNCHANGED group

\* The recoverer counts a failed attempt.
Count ==
    /\ at["recoverer"] = "count"
    /\ LET event == Event("recoverer")
           row == ledger[event]
           CountFailure == ledger' = [ledger EXCEPT ![event] = increment_fail_count(@)]
           Exhausted == should_give_up(increment_fail_count(row).fail_count, MaxRetries)
       IN \/ /\ CountFailure
             /\ NoFault
             /\ \/ is_processed(row) /\ Goto("recoverer", "ack")
                \/ ~is_processed(row) /\ Exhausted /\ Goto("recoverer", "giveup")
                \/ ~is_processed(row) /\ ~Exhausted /\ Done("recoverer")
          \/ (CountFailure \/ UNCHANGED ledger) /\ Done("recoverer") /\ Fault
    /\ UNCHANGED <<rows, group>>

\* give_up() writes nothing; the recoverer marks the event.
GiveUp ==
    /\ at["recoverer"] = "giveup"
    /\ LET MarkFailed == ledger' = [ledger EXCEPT ![Event("recoverer")] = mark_failed_permanent(@)]
       IN \/ MarkFailed /\ Goto("recoverer", "ack") /\ NoFault
          \/ (MarkFailed \/ UNCHANGED ledger) /\ Done("recoverer") /\ Fault
    /\ UNCHANGED <<rows, group>>

Ack(w) ==
    /\ at[w] = "ack"
    /\ Done(w)
    /\ \/ pending' = pending \ {cur[w]} /\ NoFault
       \/ pending' \in {pending, pending \ {cur[w]}} /\ Fault
    /\ UNCHANGED <<rows, unread, ledger>>

Crash ==
    /\ Fault
    /\ at' = [w \in Tasks |-> "idle"]
    /\ cur' = [w \in Tasks |-> NoEntry]
    /\ UNCHANGED <<rows, group, ledger>>

TaskStep(w) ==
    \/ w = "results" /\ \E entry \in unread : Read(entry)
    \/ Check(w)
    \/ Update(w)
    \/ Ack(w)
    \/ w = "recoverer" /\ (Count \/ GiveUp \/ \E entry \in pending : Claim(entry))

----------------------------------------------------------------------------
TypeOK ==
    /\ route \in [Notifications -> RouteStatus \cup {NoRoute}]
    /\ fail_reason \in [Notifications -> Reasons]
    /\ unread \subseteq Entries
    /\ pending \subseteq Entries \ unread
    /\ at \in [Tasks -> Places]
    /\ cur \in [Tasks -> Entries \cup {NoEntry}]
    /\ ledger \in [Events -> Row]
    /\ faults \in 0 .. MaxFaults

GivenUp(event) == ledger[event].status = "FAILED_PERMANENT"

\* What is acknowledged has been skipped, handled or given up on, and the
\* recoverer gives up after MaxRetries counted failures.
AcksHandled ==
    \A w \in Tasks : at[w] = "ack" => Event(w).type \notin HANDLED \/ is_processed(ledger[Event(w)])

NothingLost(published) ==
    \A entry \in published : entry.event.type \in HANDLED =>
        entry \in unread \cup pending \/ is_processed(ledger[entry.event])

GivesUpExhausted ==
    at["recoverer"] = "giveup" => ledger[Event("recoverer")].fail_count >= MaxRetries

GiveUpAfterMaxRetries ==
    \A event \in Events : GivenUp(event) => ledger[event].fail_count >= MaxRetries
=============================================================================
