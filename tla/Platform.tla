------------------------------ MODULE Platform ------------------------------
(***************************************************************************)
(* The services together.  notification-service and the results consumer   *)
(* of routing-service are here in detail; routing's decisions and the      *)
(* delivery services by the ExactlyOnce contract that RoutingWorker,       *)
(* DeliveryWorker and TelegramWorker implement; the outbox publishers by   *)
(* what OutboxPublisher shows: they add to the streams what a committed    *)
(* transaction announced, and nothing else, sometimes more than once.      *)
(*                                                                         *)
(* NotificationService assumes something of the other services             *)
(* (MayPublish).  Nothing is assumed here: its guarantees follow from the  *)
(* contracts (ImplementsNotification).                                     *)
(***************************************************************************)
EXTENDS NotificationService

VARIABLES
    decided,        \* routing-service: the event its decision announced
    outcome,        \* the delivery service: the event its outcome announced
    route, route_reason,
    route_unread, route_pending, route_at, route_cur, route_ledger, route_faults

decisions == <<decided, outcome>>
routeVars == <<route, route_reason, route_unread, route_pending, route_at, route_cur,
               route_ledger, route_faults>>
platformVars == <<vars, decisions, routeVars>>

NoEvent == "no_event"
RoutingEvents == {"NotificationRouted", "RoutingFailed"}
DeliveryEvents == {"DeliveryCompleted", "DeliveryFailed"}

Results == INSTANCE RouteResults
             WITH fail_reason <- route_reason, unread <- route_unread,
                  pending <- route_pending, at <- route_at, cur <- route_cur,
                  ledger <- route_ledger, faults <- route_faults

\* How often each of a service's events was announced.
Announcements(effect, effects) ==
    [n \in Notifications |-> [x \in effects |-> IF effect[n] = x THEN 1 ELSE 0]]

Routing == INSTANCE ExactlyOnce
             WITH Jobs <- Notifications, Effects <- RoutingEvents, Undecided <- NoEvent,
                  effect <- decided, announced <- Announcements(decided, RoutingEvents),
                  released <- {}

Delivery == INSTANCE ExactlyOnce
              WITH Jobs <- Notifications, Effects <- DeliveryEvents, Undecided <- NoEvent,
                   effect <- outcome, announced <- Announcements(outcome, DeliveryEvents),
                   released <- {}

----------------------------------------------------------------------------
PlatformInit ==
    /\ Init
    /\ Routing!Init
    /\ Delivery!Init
    /\ Results!Init

\* A step of notification-service, or of its environment but XAdd.
NotificationStep ==
    \/ \E w \in Tasks : TaskStep(w)
    \/ fail_stale_processing
    \/ \E n \in Notifications : create(n) \/ Elapse(n)
    \/ Crash

\* routing-service decides about a notification that was created: the route and
\* its event are one transaction.
Decide(n, type) ==
    /\ status[n] # Absent
    /\ Routing!Settle(n, type)
    /\ Results!insert_route(n, IF type = "RoutingFailed" THEN "routing" ELSE NoReason)
    /\ UNCHANGED <<vars, outcome>>
    /\ UNCHANGED <<route_unread, route_pending, route_at, route_cur, route_ledger, route_faults>>

\* The delivery service of the channel records what became of a notification
\* that was routed to it.
Deliver(n, type) ==
    /\ Published(n, "NotificationRouted")
    /\ Delivery!Settle(n, type)
    /\ UNCHANGED <<vars, decided, routeVars>>

\* Mutant: routing-service announces both of its events for a notification.
AnnouncesBoth(event) ==
    \/ event.type \in RoutingEvents /\ decided[event.notification] # NoEvent
    \/ outcome[event.notification] = event.type

\* The event is in the outbox of the service that owns it.
IsAnnounced(event) ==
    \/ decided[event.notification] = event.type
    \/ outcome[event.notification] = event.type

\* The owner's publisher adds an entry, which every group of the stream gets.
Publish(entry) ==
    /\ IsAnnounced(entry.event)
    /\ entry \notin published
    /\ entry.copy = 1 \/ [entry EXCEPT !.copy = @ - 1] \in published
    /\ published' = published \cup {entry}
    /\ unread' = unread \cup {entry}
    /\ route_unread' = IF entry.event.type \in ResultTypes
                         THEN route_unread \cup {entry} ELSE route_unread
    /\ UNCHANGED <<rows, pending, tasks, ledger, faults, decisions>>
    /\ UNCHANGED <<route, route_reason, route_pending, route_at, route_cur, route_ledger,
                   route_faults>>

\* The results consumer of routing-service, and its process.
RouteStep(w) == Results!TaskStep(w) /\ UNCHANGED <<vars, decisions>>

RoutingCrash == Results!Crash /\ UNCHANGED <<vars, decisions>>

ServiceStep ==
    \/ NotificationStep /\ UNCHANGED <<decisions, routeVars>>
    \/ \E n \in Notifications :
         \/ \E type \in RoutingEvents : Decide(n, type)
         \/ \E type \in DeliveryEvents : Deliver(n, type)
    \/ \E entry \in Entries : Publish(entry)
    \/ \E w \in Results!Tasks : RouteStep(w)
    \/ RoutingCrash

\* The bound on faults is on those of both services together.
PlatformNext == ServiceStep /\ faults' + route_faults' <= MaxFaults

PlatformSpec == PlatformInit /\ [][PlatformNext]_platformVars

(***************************************************************************)
(* Every task runs forever, and the contracts are kept in the end too:     *)
(* RoutingWorker's EventuallyDecided, DeliveryWorker's EntryResolved and   *)
(* OutboxPublisher's EventuallyPublished.  Nothing is asked of the         *)
(* watchdog.                                                               *)
(***************************************************************************)
PlatformFairness ==
    /\ \A w \in Tasks : WF_platformVars(TaskStep(w) /\ UNCHANGED <<decisions, routeVars>>)
    /\ \A n \in Notifications :
         /\ WF_platformVars(\E type \in RoutingEvents : Decide(n, type))
         /\ WF_platformVars(\E type \in DeliveryEvents : Deliver(n, type))
         /\ WF_platformVars(\E entry \in Entries : entry.event.notification = n /\ Publish(entry))
    /\ \A w \in Results!Tasks : WF_platformVars(RouteStep(w))

PlatformFairSpec == PlatformSpec /\ PlatformFairness

----------------------------------------------------------------------------
(* Properties.                                                             *)

PlatformTypeOK ==
    /\ TypeOK
    /\ decided \in [Notifications -> RoutingEvents \cup {NoEvent}]
    /\ outcome \in [Notifications -> DeliveryEvents \cup {NoEvent}]
    /\ Results!TypeOK

\* What NotificationService asks of the other services is what they do: the
\* platform, seen from notification-service, is that specification.
ImplementsNotification == Spec

\* The platform seen through its rows: streams, ledgers, retries, duplicates,
\* reordering, two consumers and a recoverer per service, and their crashes are
\* invisible there.
Life == INSTANCE Lifecycle

ImplementsLifecycle == Life!Spec

RouteClosed(n) == route[n] \in {"COMPLETED", "FAILED"}

\* A route is opened or refused by the decision, closed by a result once, and
\* never rewritten: two tasks may commit the same result, and routing-service's
\* own failure comes back to it.
RouteMonotonic ==
    [][\A n \in Notifications :
         \/ UNCHANGED <<route[n], route_reason[n]>>
         \/ route[n] = Results!NoRoute /\ route'[n] \in {"PROCESSING", "FAILED"}
         \/ route[n] = "PROCESSING" /\ route'[n] \in {"COMPLETED", "FAILED"}]_platformVars

\* Three databases, two of them written from the streams, do not contradict
\* each other: a notification is COMPLETED only if its delivery was recorded as
\* such, and when both are closed the notification and the route agree in status
\* and cause, unless the watchdog closed the notification.
Agreement ==
    \A n \in Notifications :
        /\ status[n] = "COMPLETED" => outcome[n] = "DeliveryCompleted"
        /\ Closed(n) /\ RouteClosed(n) =>
             \/ fail_reason[n] = PROCESSING_TIMEOUT
             \/ status[n] = route[n] /\ fail_reason[n] = route_reason[n]

\* No result is dropped on its way to either row it closes: until then the entry
\* is in the group of that service, whose recoverer will find it, unless
\* MaxRetries failures were counted there and the event was given up.
NoResultDropped ==
    \A entry \in published : entry.event.type \in ResultTypes =>
        LET event == entry.event IN
        /\ \/ entry \in unread \cup pending
           \/ Closed(event.notification)
           \/ GivenUp(event) /\ Exhausted(event)
        /\ \/ entry \in route_unread \cup route_pending
           \/ RouteClosed(event.notification)
           \/ /\ event.type \in Results!HANDLED
              /\ Results!GivenUp(event)
              /\ route_ledger[event].fail_count >= MaxRetries

\* The notification and its route are closed, or the recoverer of the service
\* that owns the row gave up on the result that would close it.
NotificationSettled(n) ==
    Closed(n) \/ \E type \in ResultTypes : GivenUp(EventOf(n, type))

RouteSettled(n) ==
    RouteClosed(n) \/ \E type \in Results!HANDLED : Results!GivenUp(EventOf(n, type))

\* Whatever a client created is closed in the end by its result, without waiting
\* for the watchdog, and so is its route, but for give-ups: after that of
\* routing-service the route stays PROCESSING (slice 2 spec 2.6).
EventuallySettled ==
    \A n \in Notifications :
        status[n] = "CREATED" ~> NotificationSettled(n) /\ RouteSettled(n)

----------------------------------------------------------------------------
(* The inductive invariant behind them.                                    *)

\* An event is in a stream only after its owner announced it, which it did only
\* after the event that caused it.
Causality ==
    /\ \A entry \in published : IsAnnounced(entry.event)
    /\ \A n \in Notifications :
         /\ decided[n] # NoEvent => status[n] # Absent
         /\ outcome[n] # NoEvent => Published(n, "NotificationRouted")

\* The results consumer works on published entries, and updates routes and gives
\* up for handled events only.
RouteHolds ==
    /\ route_unread \cup route_pending \subseteq published
    /\ \A w \in Results!Tasks :
         /\ route_at[w] # "idle" => route_cur[w] \in published \cap Results!Entries
         /\ route_at[w] \in {"update", "count", "giveup"} => Results!Event(w).type \in Results!HANDLED

\* The route is what was decided about the notification, then what became of it.
RouteFollows ==
    \A n \in Notifications :
        \/ decided[n] = NoEvent /\ route[n] = Results!NoRoute
        \/ /\ decided[n] = "RoutingFailed"
           /\ route[n] = "FAILED" /\ route_reason[n] = "routing"
        \/ decided[n] = "NotificationRouted" /\ route[n] = "PROCESSING"
        \/ /\ decided[n] = "NotificationRouted"
           /\ outcome[n] \in DeliveryEvents
           /\ route[n] = Results!NewStatus(EventOf(n, outcome[n]))
           /\ route_reason[n] = Results!FailReason(EventOf(n, outcome[n]))

\* A result that the results consumer handled is on the route: the route was
\* there, still open or already closed by the same result ("no route for this
\* notification" never happens), although routing's own failure comes back on
\* the same stream.
RouteShowsResult ==
    \A event \in Results!Events :
        route_ledger[event].status = "PROCESSED" =>
            /\ event.type \in Results!HANDLED
            /\ route[event.notification] = Results!NewStatus(event)
            /\ route_reason[event.notification] = Results!FailReason(event)

PlatformInv ==
    /\ IInv
    /\ PlatformTypeOK
    /\ Causality
    /\ RouteHolds
    /\ RouteFollows
    /\ RouteShowsResult

\* The groups of both services, relative to PlatformInv.
PlatformGroupInv ==
    /\ GroupInv
    /\ Results!AcksHandled
    /\ Results!NothingLost(published)
    /\ Results!GivesUpExhausted
    /\ Results!GiveUpAfterMaxRetries
=============================================================================
