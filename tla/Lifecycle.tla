------------------------------ MODULE Lifecycle ------------------------------
(***************************************************************************)
(* The life of a notification as the rows of the services show it, with no *)
(* streams, ledgers, retries, duplicates or faults in between: it is       *)
(* created, decided about once, delivered or not once; notification-       *)
(* service shows that it is under way, then its end; and so does the row   *)
(* of routing-service, each in its own time.  The watchdog may give a      *)
(* notification that is under way its end first.                           *)
(***************************************************************************)
CONSTANT Notifications

VARIABLES
    decided,               \* what routing-service decided
    outcome,               \* what became of the delivery
    status, fail_reason,   \* the row of notification-service
    route, route_reason    \* the row of routing-service

vars == <<decided, outcome, status, fail_reason, route, route_reason>>

Undecided == "no_event"

Init ==
    /\ decided = [n \in Notifications |-> Undecided]
    /\ outcome = [n \in Notifications |-> Undecided]
    /\ status = [n \in Notifications |-> "absent"]
    /\ fail_reason = [n \in Notifications |-> "none"]
    /\ route = [n \in Notifications |-> "no_route"]
    /\ route_reason = [n \in Notifications |-> "none"]

ShowStatus(n, s, reason) ==
    /\ status' = [status EXCEPT ![n] = s]
    /\ fail_reason' = [fail_reason EXCEPT ![n] = reason]
    /\ UNCHANGED <<decided, outcome, route, route_reason>>

ShowRoute(n, s, reason) ==
    /\ route' = [route EXCEPT ![n] = s]
    /\ route_reason' = [route_reason EXCEPT ![n] = reason]

\* How n ended, once it has.
EndsAs(n, s, reason) ==
    \/ decided[n] = "RoutingFailed" /\ s = "FAILED" /\ reason = "routing"
    \/ outcome[n] = "DeliveryFailed" /\ s = "FAILED" /\ reason = "delivery"
    \/ outcome[n] = "DeliveryCompleted" /\ s = "COMPLETED" /\ reason = "none"

Create(n) ==
    /\ status[n] = "absent"
    /\ status' = [status EXCEPT ![n] = "CREATED"]
    /\ UNCHANGED <<decided, outcome, fail_reason, route, route_reason>>

\* The decision opens the route, or closes it at once.
Decide(n, event, s, reason) ==
    /\ status[n] # "absent"
    /\ decided[n] = Undecided
    /\ decided' = [decided EXCEPT ![n] = event]
    /\ ShowRoute(n, s, reason)
    /\ UNCHANGED <<outcome, status, fail_reason>>

Deliver(n, event) ==
    /\ decided[n] = "NotificationRouted"
    /\ outcome[n] = Undecided
    /\ outcome' = [outcome EXCEPT ![n] = event]
    /\ UNCHANGED <<decided, status, fail_reason, route, route_reason>>

ShowUnderWay(n) ==
    /\ status[n] = "CREATED"
    /\ decided[n] = "NotificationRouted"
    /\ ShowStatus(n, "PROCESSING", "none")

\* Whether it was seen under way or not.
ShowEnd(n, s, reason) ==
    /\ status[n] \in {"CREATED", "PROCESSING"}
    /\ EndsAs(n, s, reason)
    /\ ShowStatus(n, s, reason)

CloseRoute(n, s, reason) ==
    /\ route[n] = "PROCESSING"
    /\ EndsAs(n, s, reason)
    /\ ShowRoute(n, s, reason)
    /\ UNCHANGED <<decided, outcome, status, fail_reason>>

TimeOut(late) ==
    /\ \A n \in late : status[n] = "PROCESSING"
    /\ status' = [n \in Notifications |-> IF n \in late THEN "FAILED" ELSE status[n]]
    /\ fail_reason' = [n \in Notifications |->
                         IF n \in late THEN "processing_timeout" ELSE fail_reason[n]]
    /\ UNCHANGED <<decided, outcome, route, route_reason>>

Next ==
    \/ \E n \in Notifications :
         \/ Create(n)
         \/ Decide(n, "NotificationRouted", "PROCESSING", "none")
         \/ Decide(n, "RoutingFailed", "FAILED", "routing")
         \/ \E event \in {"DeliveryCompleted", "DeliveryFailed"} : Deliver(n, event)
         \/ ShowUnderWay(n)
         \/ \E s \in {"COMPLETED", "FAILED"}, reason \in {"none", "delivery", "routing"} :
              ShowEnd(n, s, reason) \/ CloseRoute(n, s, reason)
    \/ \E late \in SUBSET Notifications : TimeOut(late)

Spec == Init /\ [][Next]_vars
=============================================================================
