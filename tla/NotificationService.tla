------------------------- MODULE NotificationService -------------------------
(***************************************************************************)
(* notification-service, the owner of the notification: two consumers, of  *)
(* notification.routed and of the two result streams, the recoverer that   *)
(* serves both groups, and the watchdog.  All four write the status of the *)
(* same row, each in its own transaction and guarded by a WHERE clause;    *)
(* nothing orders the events of different streams.                         *)
(*                                                                         *)
(* A transaction that changes rows is one step, at its commit: the guarded *)
(* UPDATE holds the row it matched, and a guard that did not match never   *)
(* will again.  The group is a set of entries here: batches, claiming and  *)
(* idle times are GroupWorker's, and the recoverer takes one entry at a    *)
(* time.  An event may have Copies entries, in any order.                  *)
(***************************************************************************)
EXTENDS Naturals, Ledger

CONSTANTS
    Notifications,
    Copies,        \* bound: entries of one event
    MaxRetries,    \* PENDING_MAX_RETRIES
    MaxFaults,     \* bound: crashes and failed Redis or database calls
    NoEntry        \* what an idle task holds

VARIABLES
    status,       \* notifications.status
    fail_reason,  \* notifications.fail_reason
    stale,        \* rows whose updated_at is older than the timeout
    published,    \* entries the other services have added to the streams
    unread,       \* those of them no consumer has read
    pending,      \* those in the pending list of their group
    at,           \* where each task is
    cur,          \* the entry it is working on
    ledger,       \* processed_events, by event: its type names the group
    faults

rows == <<status, fail_reason, stale>>
streams == <<published, unread, pending>>
tasks == <<at, cur>>
vars == <<rows, streams, tasks, ledger, faults>>

NotificationStatus == {"CREATED", "PROCESSING", "COMPLETED", "FAILED"}
Absent == "absent"
NON_TERMINAL == {"CREATED", "PROCESSING"}

NoReason == "none"
PROCESSING_TIMEOUT == "processing_timeout"
Reasons == {NoReason, PROCESSING_TIMEOUT, "delivery", "routing"}

ResultTypes == {"DeliveryCompleted", "DeliveryFailed", "RoutingFailed"}
EventTypes == ResultTypes \cup {"NotificationRouted"}

Events == [notification : Notifications, type : EventTypes]
Entries == [event : Events, copy : 1 .. Copies]

ASSUME NotificationAssumption ==
    /\ Copies \in Nat
    /\ MaxRetries \in Nat \ {0}
    /\ MaxFaults \in Nat
    /\ NoEntry \notin Entries

EventOf(n, type) == [notification |-> n, type |-> type]

Tasks == {"routed", "results", "recoverer"}
Places == {"idle", "handle", "update", "count", "giveup", "ack"}

\* The events a task's consumer group reads; the recoverer serves both.
Reads(w, event) ==
    CASE w = "routed" -> event.type = "NotificationRouted"
      [] w = "results" -> event.type \in ResultTypes
      [] w = "recoverer" -> TRUE

----------------------------------------------------------------------------
Fault == /\ faults < MaxFaults
         /\ faults' = faults + 1

NoFault == UNCHANGED faults

Event(w) == cur[w].event

Goto(w, place) == at' = [at EXCEPT ![w] = place] /\ UNCHANGED cur

Done(w) == /\ at' = [at EXCEPT ![w] = "idle"]
           /\ cur' = [cur EXCEPT ![w] = NoEntry]

\* Mutant: the consumer acknowledges in a finally clause.
RaiseAcks(w) == Goto(w, IF w = "recoverer" THEN "count" ELSE "ack")

\* handle() raised: a consumer leaves the entry pending, the recoverer counts.
Raise(w) == IF w = "recoverer" THEN Goto(w, "count") ELSE Done(w)

\* Mutant: the UPDATE is by id alone.
update_by_id(n, new_status, allowed_from, reason) ==
    /\ status' = [status EXCEPT ![n] = new_status]
    /\ fail_reason' = [fail_reason EXCEPT ![n] = reason]
    /\ stale' = stale \ {n}

\* The UPDATE of advance_status(): it matches the row, and moves updated_at,
\* or matches none.
advance_status(n, new_status, allowed_from, reason) ==
    \/ /\ status[n] \in allowed_from
       /\ status' = [status EXCEPT ![n] = new_status]
       /\ fail_reason' = [fail_reason EXCEPT ![n] = reason]
       /\ stale' = stale \ {n}
    \/ status[n] \notin allowed_from /\ UNCHANGED rows

\* What the handle() of an event writes, from which statuses, and why.
NewStatus(event) ==
    CASE event.type = "NotificationRouted" -> "PROCESSING"
      [] event.type = "DeliveryCompleted" -> "COMPLETED"
      [] event.type \in {"DeliveryFailed", "RoutingFailed"} -> "FAILED"

\* Mutant: a result closes what is being processed.
OnlyProcessing(event) ==
    IF event.type = "NotificationRouted" THEN {"CREATED"} ELSE {"PROCESSING"}

AllowedFrom(event) ==
    IF event.type = "NotificationRouted" THEN {"CREATED"} ELSE NON_TERMINAL

FailReason(event) ==
    CASE event.type = "DeliveryFailed" -> "delivery"
      [] event.type = "RoutingFailed" -> "routing"
      [] OTHER -> NoReason

----------------------------------------------------------------------------
Init ==
    /\ status = [n \in Notifications |-> Absent]
    /\ fail_reason = [n \in Notifications |-> NoReason]
    /\ stale = {}
    /\ published = {} /\ unread = {} /\ pending = {}
    /\ at = [w \in Tasks |-> "idle"]
    /\ cur = [w \in Tasks |-> NoEntry]
    /\ ledger = [event \in Events |-> NoRow]
    /\ faults = 0

\* POST /notifications: the row, and its NotificationCreated for routing.
create(n) ==
    /\ status[n] = Absent
    /\ status' = [status EXCEPT ![n] = "CREATED"]
    /\ UNCHANGED <<fail_reason, stale, streams, tasks, ledger, faults>>

Published(n, type) == \E entry \in published : entry.event = EventOf(n, type)

(***************************************************************************)
(* What the other services promise: routing decides once (RoutingWorker),  *)
(* and what it routed has one outcome (DeliveryWorker).                    *)
(***************************************************************************)
MayPublish(n, type) ==
    CASE type = "NotificationRouted" -> ~Published(n, "RoutingFailed")
      [] type = "RoutingFailed" -> ~Published(n, "NotificationRouted")
      [] type = "DeliveryCompleted" ->
           Published(n, "NotificationRouted") /\ ~Published(n, "DeliveryFailed")
      [] type = "DeliveryFailed" ->
           Published(n, "NotificationRouted") /\ ~Published(n, "DeliveryCompleted")

\* Their outbox publishers add entries, sometimes more than one of an event.
XAdd(entry) ==
    LET event == entry.event IN
    /\ status[event.notification] # Absent
    /\ MayPublish(event.notification, event.type)
    /\ entry \notin published
    /\ entry.copy = 1 \/ [entry EXCEPT !.copy = @ - 1] \in published
    /\ published' = published \cup {entry}
    /\ unread' = unread \cup {entry}
    /\ UNCHANGED <<rows, pending, tasks, ledger, faults>>

----------------------------------------------------------------------------
\* A consumer reads an entry, which makes it pending, or fails to with the
\* entry delivered.
Read(w, entry) ==
    /\ w # "recoverer"
    /\ at[w] = "idle"
    /\ entry \in unread
    /\ Reads(w, entry.event)
    /\ unread' = unread \ {entry}
    /\ pending' = pending \cup {entry}
    /\ \/ /\ at' = [at EXCEPT ![w] = "handle"]
          /\ cur' = [cur EXCEPT ![w] = entry]
          /\ NoFault
       \/ UNCHANGED tasks /\ Fault
    /\ UNCHANGED <<rows, published, ledger>>

\* The recoverer claims an entry that has been pending too long, whoever may
\* still be working on it.
Claim(entry) ==
    /\ at["recoverer"] = "idle"
    /\ entry \in pending
    /\ at' = [at EXCEPT !["recoverer"] = "handle"]
    /\ cur' = [cur EXCEPT !["recoverer"] = entry]
    /\ UNCHANGED <<rows, streams, ledger, faults>>

\* handle(), up to what is_processed() answered.
Check(w) ==
    /\ at[w] = "handle"
    /\ \/ Goto(w, IF is_processed(ledger[Event(w)]) THEN "ack" ELSE "update") /\ NoFault
       \/ Raise(w) /\ Fault
    /\ UNCHANGED <<rows, streams, ledger>>

CommitUpdate(event) ==
    /\ advance_status(event.notification, NewStatus(event), AllowedFrom(event), FailReason(event))
    /\ ledger' = [ledger EXCEPT ![event] = mark_processed(@)]

\* The rest of handle(): the guarded update and the ledger row.  A commit that
\* fails may have happened.
Update(w) ==
    /\ at[w] = "update"
    /\ \/ CommitUpdate(Event(w)) /\ Goto(w, "ack") /\ NoFault
       \/ /\ CommitUpdate(Event(w)) \/ UNCHANGED <<rows, ledger>>
          /\ Raise(w)
          /\ Fault
    /\ UNCHANGED streams

\* The recoverer counts a failed attempt, in a transaction of its own.
Count ==
    /\ at["recoverer"] = "count"
    /\ LET event == Event("recoverer")
           row == ledger[event]
           CountFailure == ledger' = [ledger EXCEPT ![event] = increment_fail_count(@)]
       IN \/ /\ CountFailure
             /\ NoFault
             /\ \/ is_processed(row) /\ Goto("recoverer", "ack")
                \/ /\ ~is_processed(row)
                   /\ should_give_up(increment_fail_count(row).fail_count, MaxRetries)
                   /\ Goto("recoverer", "giveup")
                \/ /\ ~is_processed(row)
                   /\ ~should_give_up(increment_fail_count(row).fail_count, MaxRetries)
                   /\ Done("recoverer")
          \/ /\ CountFailure \/ UNCHANGED ledger
             /\ Done("recoverer")
             /\ Fault
    /\ UNCHANGED <<rows, streams>>

\* The give_up() of both consumers writes nothing; mark_failed_permanent()
\* does, whatever the row has become since it was counted.
GiveUp ==
    /\ at["recoverer"] = "giveup"
    /\ LET MarkFailed == ledger' = [ledger EXCEPT ![Event("recoverer")] = mark_failed_permanent(@)]
       IN \/ MarkFailed /\ Goto("recoverer", "ack") /\ NoFault
          \/ (MarkFailed \/ UNCHANGED ledger) /\ Done("recoverer") /\ Fault
    /\ UNCHANGED <<rows, streams>>

Ack(w) ==
    /\ at[w] = "ack"
    /\ Done(w)
    /\ \/ pending' = pending \ {cur[w]} /\ NoFault
       \/ pending' \in {pending, pending \ {cur[w]}} /\ Fault
    /\ UNCHANGED <<rows, unread, published, ledger>>

Crash ==
    /\ Fault
    /\ at' = [w \in Tasks |-> "idle"]
    /\ cur' = [w \in Tasks |-> NoEntry]
    /\ UNCHANGED <<rows, streams, ledger>>

----------------------------------------------------------------------------
\* PROCESSING_TIMEOUT_MINUTES have passed since a row was last updated.
Elapse(n) ==
    /\ status[n] # Absent
    /\ stale' = stale \cup {n}
    /\ UNCHANGED <<status, fail_reason, streams, tasks, ledger, faults>>

\* Mutants: the sweep does not look at the status; it takes the wrong one.
AllStale == stale
StaleCreated == {n \in stale : status[n] = "CREATED"}

StaleProcessing == {n \in stale : status[n] = "PROCESSING"}

\* The watchdog's sweep: one UPDATE of every row that matches.
fail_stale_processing ==
    /\ StaleProcessing # {}
    /\ status' = [n \in Notifications |-> IF n \in StaleProcessing THEN "FAILED" ELSE status[n]]
    /\ fail_reason' = [n \in Notifications |->
                         IF n \in StaleProcessing THEN PROCESSING_TIMEOUT ELSE fail_reason[n]]
    /\ stale' = stale \ StaleProcessing
    /\ UNCHANGED <<streams, tasks, ledger, faults>>

----------------------------------------------------------------------------
TaskStep(w) ==
    \/ \E entry \in unread : Read(w, entry)
    \/ Check(w)
    \/ Update(w)
    \/ Ack(w)
    \/ w = "recoverer" /\ (Count \/ GiveUp \/ \E entry \in pending : Claim(entry))

Next ==
    \/ \E w \in Tasks : TaskStep(w)
    \/ fail_stale_processing
    \/ \E n \in Notifications : create(n) \/ Elapse(n)
    \/ \E entry \in Entries : XAdd(entry)
    \/ Crash

Spec == Init /\ [][Next]_vars

\* Every task runs forever and time passes; the other services may never
\* publish, and nothing is asked of crashes.
Fairness ==
    /\ \A w \in Tasks : WF_vars(TaskStep(w))
    /\ WF_vars(fail_stale_processing)
    /\ \A n \in Notifications : WF_vars(Elapse(n))

FairSpec == Spec /\ Fairness

----------------------------------------------------------------------------
(* Properties.                                                             *)

TypeOK ==
    /\ status \in [Notifications -> NotificationStatus \cup {Absent}]
    /\ fail_reason \in [Notifications -> Reasons]
    /\ stale \subseteq Notifications
    /\ published \subseteq Entries
    /\ unread \subseteq published
    /\ pending \subseteq published \ unread
    /\ at \in [Tasks -> Places]
    /\ cur \in [Tasks -> Entries \cup {NoEntry}]
    /\ ledger \in [Events -> Row]
    /\ faults \in 0 .. MaxFaults

Closed(n) == status[n] \in {"COMPLETED", "FAILED"}

LegalTransitions ==
    {<<Absent, "CREATED">>} \cup ({"CREATED"} \X {"PROCESSING", "COMPLETED", "FAILED"})
      \cup ({"PROCESSING"} \X {"COMPLETED", "FAILED"})

\* Terminal states never reopen and nothing runs backwards, whatever the order
\* in which the streams are consumed: two consumers, a retry of either and the
\* watchdog write the row (ADR 0016).
Monotonic ==
    [][\A n \in Notifications :
         \/ UNCHANGED <<status[n], fail_reason[n]>>
         \/ <<status[n], status'[n]>> \in LegalTransitions]_vars

\* A result that was handled is what the notification shows, unless the
\* watchdog came first: in particular one that arrives before the routed event
\* is not lost to the guard.
ResultApplied ==
    \A event \in Events :
        ledger[event].status = "PROCESSED" /\ event.type \in ResultTypes =>
            LET n == event.notification IN
            \/ status[n] = NewStatus(event) /\ fail_reason[n] = FailReason(event)
            \/ status[n] = "FAILED" /\ fail_reason[n] = PROCESSING_TIMEOUT

\* A notification is closed for a cause: the result another service published,
\* or the timeout of one that was really routed.
ClosedForCause ==
    \A n \in Notifications : Closed(n) =>
        \/ /\ status[n] = "FAILED" /\ fail_reason[n] = PROCESSING_TIMEOUT
           /\ is_processed(ledger[EventOf(n, "NotificationRouted")])
        \/ \E type \in ResultTypes :
             /\ Published(n, type)
             /\ status[n] = NewStatus(EventOf(n, type))
             /\ fail_reason[n] = FailReason(EventOf(n, type))

\* No notification stays PROCESSING: the watchdog closes what no result does.
ProcessingEnds ==
    \A n \in Notifications : status[n] = "PROCESSING" ~> Closed(n)

GivenUp(event) == ledger[event].status = "FAILED_PERMANENT"

\* A result another service published (there is at most one of a notification)
\* closes its notification, if the recoverer does not give up on it.
ResultCloses ==
    \A n \in Notifications :
        (\E type \in ResultTypes : Published(n, type)) ~>
            Closed(n) \/ \E type \in ResultTypes : GivenUp(EventOf(n, type))

\* When the recoverer gives up on a result, the notification stays PROCESSING
\* and the watchdog closes it (slice 2 spec 2.6).
WatchdogClosesGivenUp ==
    \A event \in Events :
        event.type \in ResultTypes /\ GivenUp(event) ~> Closed(event.notification)

----------------------------------------------------------------------------
(* The inductive invariant behind them.                                    *)

\* A task works on a published event.
HoldsPublished ==
    \A w \in Tasks : at[w] # "idle" => cur[w] \in published

\* What the other services published about one notification is consistent.
ConsistentEvents ==
    \A n \in Notifications :
        /\ \A type \in EventTypes : Published(n, type) => status[n] # Absent
        /\ ~(Published(n, "NotificationRouted") /\ Published(n, "RoutingFailed"))
        /\ ~(Published(n, "DeliveryCompleted") /\ Published(n, "DeliveryFailed"))
        /\ Published(n, "DeliveryCompleted") \/ Published(n, "DeliveryFailed")
             => Published(n, "NotificationRouted")

\* The routed event is what makes a notification PROCESSING.
ProcessingWasRouted ==
    \A n \in Notifications :
        status[n] = "PROCESSING" => is_processed(ledger[EventOf(n, "NotificationRouted")])

IInv ==
    /\ TypeOK
    /\ HoldsPublished
    /\ ConsistentEvents
    /\ ProcessingWasRouted
    /\ ResultApplied
    /\ ClosedForCause

----------------------------------------------------------------------------
(* The consumer groups, relative to IInv.                                  *)

\* What is acknowledged has been handled, or given up on.
AcksHandled ==
    \A w \in Tasks : at[w] = "ack" => is_processed(ledger[Event(w)])

\* Every entry is still in its group until its event has been handled or given
\* up on, whichever of the tasks crashed or failed.
NothingLost ==
    \A entry \in published \ (unread \cup pending) : is_processed(ledger[entry.event])

Exhausted(event) == ledger[event].fail_count >= MaxRetries

GivesUpExhausted == at["recoverer"] = "giveup" => Exhausted(Event("recoverer"))

\* The recoverer gives up on no event before MaxRetries failed attempts were
\* counted for it, although it decides in one transaction and writes in another.
GiveUpAfterMaxRetries == \A event \in Events : GivenUp(event) => Exhausted(event)

GroupInv ==
    /\ AcksHandled
    /\ NothingLost
    /\ GivesUpExhausted
    /\ GiveUpAfterMaxRetries

\* A ledger row never reopens, whichever of the tasks writes it, and a later
\* success does not erase the failures that were counted before it.
HistoryKept ==
    [][\A event \in Events :
         /\ is_processed(ledger[event]) => is_processed(ledger'[event])
         /\ ledger'[event].fail_count >= ledger[event].fail_count]_vars
=============================================================================
