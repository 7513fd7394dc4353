--------------------------- MODULE PlatformProofs ---------------------------
(***************************************************************************)
(* Proofs about Platform, for every set of notifications, every number of  *)
(* duplicates, retries and faults: the composition of the services'        *)
(* contracts implements what NotificationService assumes, and the          *)
(* databases of the services agree.                                        *)
(***************************************************************************)
EXTENDS Platform, NotificationServiceProofs

LEMMA Kinds ==
    /\ RoutingEvents \cap DeliveryEvents = {} /\ NoEvent \notin RoutingEvents \cup DeliveryEvents
    /\ EventTypes = RoutingEvents \cup DeliveryEvents
    /\ ResultTypes = DeliveryEvents \cup {"RoutingFailed"}
    /\ Results!HANDLED = DeliveryEvents /\ Results!EventTypes = ResultTypes
    /\ Results!Events \subseteq Events /\ Results!Entries \subseteq Entries
    /\ \A entry \in Entries :
         entry.event.type \in ResultTypes => entry \in Results!Entries
  BY DEF RoutingEvents, DeliveryEvents, NoEvent, EventTypes, ResultTypes, Results!HANDLED,
     Results!EventTypes, Results!Events, Events, Results!Entries, Entries

----------------------------------------------------------------------------
(* The contracts discharge the assumption of NotificationService.          *)

\* What is published was announced by its owner, in the right order.
LEMMA PublishedIsAnnounced ==
    ASSUME PlatformInv, NEW n \in Notifications, NEW type \in EventTypes, Published(n, type)
    PROVE  /\ type \in RoutingEvents => decided[n] = type
           /\ type \in DeliveryEvents => outcome[n] = type
<1>1. IsAnnounced(EventOf(n, type))
  BY DEF PlatformInv, Causality, Published
<1>2. decided[n] \in RoutingEvents \cup {NoEvent} /\ outcome[n] \in DeliveryEvents \cup {NoEvent}
  BY DEF PlatformInv, PlatformTypeOK
<1> QED
  BY <1>1, <1>2, Kinds DEF IsAnnounced, EventOf

LEMMA PublishIsAllowed ==
    ASSUME PlatformInv, NEW entry \in Entries, Publish(entry)
    PROVE  XAdd(entry)
<1> DEFINE n == entry.event.notification
           type == entry.event.type
<1>1. n \in Notifications /\ type \in EventTypes /\ entry.event = EventOf(n, type)
  BY DEF Entries, Events, EventOf
<1>2. decided[n] \in RoutingEvents \cup {NoEvent} /\ outcome[n] \in DeliveryEvents \cup {NoEvent}
  BY <1>1 DEF PlatformInv, PlatformTypeOK
<1>3. /\ type \in RoutingEvents => decided[n] = type
      /\ type \in DeliveryEvents => outcome[n] = type
  BY <1>1, <1>2, Kinds DEF Publish, IsAnnounced
<1>4. type \in DeliveryEvents => Published(n, "NotificationRouted")
  BY <1>1, <1>3, Kinds DEF PlatformInv, Causality
<1>5. Published(n, "NotificationRouted") => decided[n] = "NotificationRouted"
  BY <1>1, PublishedIsAnnounced, Kinds DEF RoutingEvents
<1>6. status[n] # Absent
  <2>1. decided[n] # NoEvent
    BY <1>1, <1>3, <1>4, <1>5, Kinds DEF NoEvent
  <2> QED
    BY <1>1, <2>1 DEF PlatformInv, Causality
<1>7. MayPublish(n, type)
  <2>1. CASE type = "NotificationRouted"
    BY <1>1, <1>3, <2>1, PublishedIsAnnounced, Kinds DEF MayPublish, RoutingEvents
  <2>2. CASE type = "RoutingFailed"
    BY <1>1, <1>3, <2>2, PublishedIsAnnounced, Kinds DEF MayPublish, RoutingEvents
  <2>3. CASE type = "DeliveryCompleted"
    BY <1>1, <1>3, <1>4, <2>3, PublishedIsAnnounced, Kinds DEF MayPublish, DeliveryEvents
  <2>4. CASE type = "DeliveryFailed"
    BY <1>1, <1>3, <1>4, <2>4, PublishedIsAnnounced, Kinds DEF MayPublish, DeliveryEvents
  <2> QED
    BY <1>1, <2>1, <2>2, <2>3, <2>4, Kinds DEF RoutingEvents, DeliveryEvents
<1> QED
  BY <1>6, <1>7 DEF XAdd, Publish

\* Every step of the platform is one of notification-service or leaves it alone.
LEMMA StepImplements == ASSUME PlatformInv, [PlatformNext]_platformVars PROVE [Next]_vars
<1>1. CASE NotificationStep /\ UNCHANGED <<decisions, routeVars>>
  BY <1>1 DEF NotificationStep, Next
<1>2. CASE \E n \in Notifications :
             \/ \E type \in RoutingEvents : Decide(n, type)
             \/ \E type \in DeliveryEvents : Deliver(n, type)
  BY <1>2 DEF Decide, Deliver
<1>3. CASE \E entry \in Entries : Publish(entry)
  BY <1>3, PublishIsAllowed DEF Next
<1>4. CASE (\E w \in Results!Tasks : RouteStep(w)) \/ RoutingCrash
  BY <1>4 DEF RouteStep, RoutingCrash
<1>5. CASE UNCHANGED platformVars
  BY <1>5 DEF platformVars
<1> QED
  BY <1>1, <1>2, <1>3, <1>4, <1>5 DEF PlatformNext, ServiceStep

----------------------------------------------------------------------------
(* The results consumer of routing-service.                                *)

\* The ledger statements, for its ledger.
LEMMA RouteLedgerRows ==
    ASSUME NEW row \in Results!Row
    PROVE  /\ Results!mark_processed(row) \in Results!Row
           /\ Results!mark_processed(row).status = "PROCESSED"
           /\ Results!mark_failed_permanent(row) \in Results!Row
           /\ Results!mark_failed_permanent(row).status # "PROCESSED"
           /\ Results!increment_fail_count(row) \in Results!Row
           /\ Results!increment_fail_count(row).status = "PROCESSED" => row.status = "PROCESSED"
  BY DEF Results!Row, Results!ProcessedStatus, Results!Terminal, Results!mark_processed,
     Results!mark_failed_permanent, Results!increment_fail_count, Results!is_processed

\* No ledger row but that of a commit becomes PROCESSED.
RouteBookkeeping ==
    /\ route_ledger' \in [Results!Events -> Results!Row]
    /\ \A event \in Results!Events :
         route_ledger'[event].status = "PROCESSED" => route_ledger[event].status = "PROCESSED"

LEMMA RouteRewrites ==
    ASSUME route_ledger \in [Results!Events -> Results!Row], NEW event \in Results!Events,
           \/ route_ledger' = [route_ledger EXCEPT ![event] = Results!increment_fail_count(@)]
           \/ route_ledger' = [route_ledger EXCEPT ![event] = Results!mark_failed_permanent(@)]
           \/ route_ledger' = route_ledger
    PROVE  RouteBookkeeping
<1>1. route_ledger[event] \in Results!Row
  OBVIOUS
<1> QED
  BY <1>1, RouteLedgerRows DEF RouteBookkeeping

\* What one of its tasks holds.
LEMMA RouteHeld ==
    ASSUME PlatformInv, NEW w \in Results!Tasks, route_at[w] # "idle"
    PROVE  /\ route_cur[w] \in published /\ Results!Event(w) \in Results!Events
           /\ Results!Event(w) \in Events
           /\ Results!Event(w).notification \in Notifications
           /\ Published(Results!Event(w).notification, Results!Event(w).type)
<1>1. route_cur[w] \in published /\ route_cur[w] \in Results!Entries
  BY DEF PlatformInv, RouteHolds
<1>2. Results!Event(w) \in Results!Events
  BY <1>1 DEF Results!Entries, Results!Event
<1>3. Results!Event(w) = EventOf(Results!Event(w).notification, Results!Event(w).type)
  BY <1>2 DEF Results!Events, EventOf
<1> QED
  BY <1>1, <1>2, <1>3, Kinds DEF Results!Events, Published, Results!Event

\* A commit finds the route open, or showing the same result, and leaves it
\* showing the result.
LEMMA RouteCommit ==
    ASSUME PlatformInv, NEW w \in Results!Tasks, route_at[w] = "update",
           NEW event, event = Results!Event(w), Results!CommitUpdate(event)
    PROVE  /\ event \in Results!Events /\ event.type \in Results!HANDLED
           /\ decided[event.notification] = "NotificationRouted"
           /\ outcome[event.notification] = event.type
           /\ event = EventOf(event.notification, event.type)
           /\ route' = [route EXCEPT ![event.notification] = Results!NewStatus(event)]
           /\ route_reason' = [route_reason EXCEPT ![event.notification] = Results!FailReason(event)]
           /\ route_ledger' = [route_ledger EXCEPT ![event] = Results!mark_processed(@)]
<1> DEFINE n == event.notification
<1>1. /\ event \in Results!Events /\ event.type \in Results!HANDLED /\ n \in Notifications
      /\ event.type \in EventTypes /\ event.type \in DeliveryEvents /\ Published(n, event.type)
      /\ event = EventOf(n, event.type)
  <2>1. event \in Results!Events /\ Published(n, event.type) /\ event.type \in Results!HANDLED
    BY RouteHeld DEF PlatformInv, RouteHolds
  <2> QED
    BY <2>1, Kinds DEF Results!Events, EventOf
<1>2. outcome[n] = event.type
  BY <1>1, PublishedIsAnnounced
<1>3. Published(n, "NotificationRouted")
  BY <1>1, <1>2, Kinds DEF PlatformInv, Causality
<1>4. decided[n] = "NotificationRouted"
  BY <1>1, <1>3, PublishedIsAnnounced, Kinds DEF RoutingEvents
<1>5. /\ route \in [Notifications -> Results!RouteStatus \cup {Results!NoRoute}]
      /\ route_reason \in [Notifications -> Results!Reasons]
  BY DEF PlatformInv, PlatformTypeOK, Results!TypeOK
<1>6. \/ route[n] = "PROCESSING"
      \/ route[n] = Results!NewStatus(event) /\ route_reason[n] = Results!FailReason(event)
  <2>1. RouteFollows
    BY DEF PlatformInv
  <2> HIDE DEF n
  <2> QED
    BY <1>1, <1>2, <1>4, <2>1 DEF RouteFollows, NoEvent, n
<1>7. /\ Results!set_status(n, Results!NewStatus(event), {"PROCESSING"}, Results!FailReason(event))
      /\ route_ledger' = [route_ledger EXCEPT ![event] = Results!mark_processed(@)]
  BY DEF Results!CommitUpdate
<1>8. /\ route' = [route EXCEPT ![n] = Results!NewStatus(event)]
      /\ route_reason' = [route_reason EXCEPT ![n] = Results!FailReason(event)]
  <2> HIDE DEF n
  <2>1. CASE route[n] = "PROCESSING"
    BY <1>7, <2>1 DEF Results!set_status
  <2>2. CASE route[n] # "PROCESSING"
    <3>1. route' = route /\ route_reason' = route_reason
      BY <1>7, <2>2 DEF Results!set_status, Results!rows
    <3>2. route[n] = Results!NewStatus(event) /\ route_reason[n] = Results!FailReason(event)
      BY <1>6, <2>2
    <3> HIDE DEF Results!NewStatus, Results!FailReason
    <3> QED
      BY <1>5, <3>1, <3>2
  <2> QED
    BY <2>1, <2>2
<1> QED
  BY <1>1, <1>2, <1>4, <1>7, <1>8

\* What a step of the platform writes of the routes.
LEMMA RouteWrites ==
    ASSUME PlatformInv, [PlatformNext]_platformVars
    PROVE  \/ \E w \in Results!Tasks :
                /\ route_at[w] = "update" /\ Results!CommitUpdate(Results!Event(w))
                /\ UNCHANGED <<decided, outcome, published>>
           \/ /\ \E n \in Notifications, type \in RoutingEvents : Decide(n, type)
              /\ RouteBookkeeping
           \/ UNCHANGED <<route, route_reason, decided>> /\ RouteBookkeeping
<1> DEFINE Commits == \E w \in Results!Tasks :
                        /\ route_at[w] = "update" /\ Results!CommitUpdate(Results!Event(w))
                        /\ UNCHANGED <<decided, outcome, published>>
           Nothing == UNCHANGED <<route, route_reason, decided>> /\ RouteBookkeeping
<1>1. route_ledger \in [Results!Events -> Results!Row] /\ "recoverer" \in Results!Tasks
  BY DEF PlatformInv, PlatformTypeOK, Results!TypeOK, Results!Tasks
<1>2. route_ledger' = route_ledger => RouteBookkeeping
  BY DEF PlatformInv, PlatformTypeOK, Results!TypeOK, RouteBookkeeping
<1>3. ASSUME NEW w \in Results!Tasks, RouteStep(w) PROVE Commits \/ Nothing
  <2>1. UNCHANGED <<decided, outcome, published>>
    BY <1>3 DEF RouteStep, decisions, vars, streams
  <2>2. CASE Results!Update(w)
    BY <1>2, <2>1, <2>2 DEF Results!Update, Results!rows
  <2>3. CASE w = "recoverer" /\ Results!Count
    <3>1. Results!Event(w) \in Results!Events /\ UNCHANGED <<route, route_reason>>
      BY <2>3, RouteHeld DEF Results!Count, Results!rows
    <3>2. \/ route_ledger' = [route_ledger EXCEPT ![Results!Event(w)] = Results!increment_fail_count(@)]
          \/ route_ledger' = route_ledger
      BY <2>3 DEF Results!Count
    <3> QED
      BY <1>1, <2>1, <3>1, <3>2, RouteRewrites
  <2>4. CASE w = "recoverer" /\ Results!GiveUp
    <3>1. Results!Event(w) \in Results!Events /\ UNCHANGED <<route, route_reason>>
      BY <2>4, RouteHeld DEF Results!GiveUp, Results!rows
    <3>2. \/ route_ledger' = [route_ledger EXCEPT ![Results!Event(w)] = Results!mark_failed_permanent(@)]
          \/ route_ledger' = route_ledger
      BY <2>4 DEF Results!GiveUp
    <3> QED
      BY <1>1, <2>1, <3>1, <3>2, RouteRewrites
  <2>5. ASSUME \/ Results!Check(w) \/ Results!Ack(w)
               \/ \E entry \in route_unread : Results!Read(entry)
               \/ \E entry \in route_pending : Results!Claim(entry)
        PROVE  UNCHANGED <<route, route_reason, route_ledger>>
    BY <2>5 DEF Results!Check, Results!Ack, Results!Read, Results!Claim, Results!rows
  <2> QED
    BY <1>2, <1>3, <2>1, <2>2, <2>3, <2>4, <2>5 DEF RouteStep, Results!TaskStep
<1>4. CASE RoutingCrash
  BY <1>2, <1>4 DEF RoutingCrash, Results!Crash, Results!rows, decisions
<1>5. ASSUME NEW n \in Notifications, NEW type \in RoutingEvents, Decide(n, type)
      PROVE  RouteBookkeeping
  BY <1>2, <1>5 DEF Decide
<1>6. ASSUME NEW n \in Notifications, NEW type \in DeliveryEvents, Deliver(n, type) PROVE Nothing
  BY <1>2, <1>6 DEF Deliver, routeVars
<1>7. ASSUME NEW entry \in Entries, Publish(entry) PROVE Nothing
  BY <1>2, <1>7 DEF Publish, decisions
<1>8. CASE UNCHANGED <<decisions, routeVars>>
  BY <1>2, <1>8 DEF decisions, routeVars
<1>9. CASE UNCHANGED platformVars
  BY <1>8, <1>9 DEF platformVars
<1> QED
  BY <1>3, <1>4, <1>5, <1>6, <1>7, <1>8, <1>9 DEF PlatformNext, ServiceStep

\* A decision settles its row, and nothing else changes one.
LEMMA Decisions ==
    ASSUME PlatformInv, NEW n \in Notifications, NEW type \in RoutingEvents, Decide(n, type)
    PROVE  /\ decided[n] = NoEvent /\ status[n] # Absent
           /\ decided' = [decided EXCEPT ![n] = type]
           /\ UNCHANGED <<vars, outcome, route_ledger>>
           /\ route' = [route EXCEPT ![n] = IF type = "NotificationRouted" THEN "PROCESSING" ELSE "FAILED"]
           /\ route_reason' = [route_reason EXCEPT ![n] =
                                 IF type = "NotificationRouted" THEN Results!NoReason ELSE "routing"]
  BY DEF Decide, Routing!Settle, Results!insert_route, RoutingEvents, Results!NoReason, NoReason

LEMMA Outcomes ==
    ASSUME PlatformInv, [PlatformNext]_platformVars
    PROVE  \/ /\ \E n \in Notifications, type \in DeliveryEvents :
                   /\ Published(n, "NotificationRouted") /\ outcome[n] = NoEvent
                   /\ outcome' = [outcome EXCEPT ![n] = type]
              /\ UNCHANGED <<vars, decided, routeVars>>
           \/ UNCHANGED outcome
<1>1. ASSUME NEW n \in Notifications, NEW type \in DeliveryEvents, Deliver(n, type)
      PROVE  /\ Published(n, "NotificationRouted") /\ outcome[n] = NoEvent
             /\ outcome' = [outcome EXCEPT ![n] = type]
             /\ UNCHANGED <<vars, decided, routeVars>>
  BY <1>1 DEF Deliver, Delivery!Settle
<1> QED
  BY <1>1 DEF PlatformNext, ServiceStep, Decide, Publish, RouteStep, RoutingCrash, decisions, platformVars

----------------------------------------------------------------------------
(* Types, and what the tasks of the results consumer hold.                 *)

LEMMA RouteRowsStep ==
    ASSUME PlatformInv, [PlatformNext]_platformVars
    PROVE  /\ route' \in [Notifications -> Results!RouteStatus \cup {Results!NoRoute}]
           /\ route_reason' \in [Notifications -> Results!Reasons]
           /\ route_ledger' \in [Results!Events -> Results!Row]
<1>1. /\ route \in [Notifications -> Results!RouteStatus \cup {Results!NoRoute}]
      /\ route_reason \in [Notifications -> Results!Reasons]
      /\ route_ledger \in [Results!Events -> Results!Row]
  BY DEF PlatformInv, PlatformTypeOK, Results!TypeOK
<1>2. ASSUME NEW w \in Results!Tasks, route_at[w] = "update",
             Results!CommitUpdate(Results!Event(w))
      PROVE  /\ route' \in [Notifications -> Results!RouteStatus \cup {Results!NoRoute}]
             /\ route_reason' \in [Notifications -> Results!Reasons]
             /\ route_ledger' \in [Results!Events -> Results!Row]
  <2> DEFINE event == Results!Event(w)
  <2>1. /\ event \in Results!Events
        /\ route' = [route EXCEPT ![event.notification] = Results!NewStatus(event)]
        /\ route_reason' = [route_reason EXCEPT ![event.notification] = Results!FailReason(event)]
        /\ route_ledger' = [route_ledger EXCEPT ![event] = Results!mark_processed(@)]
    BY <1>2, RouteCommit
  <2>2. Results!NewStatus(event) \in Results!RouteStatus /\ Results!FailReason(event) \in Results!Reasons
    BY DEF Results!NewStatus, Results!FailReason, Results!RouteStatus, Results!Reasons
  <2> HIDE DEF event
  <2>3. Results!mark_processed(route_ledger[event]) \in Results!Row
    BY <1>1, <2>1, RouteLedgerRows
  <2> QED
    BY <1>1, <2>1, <2>2, <2>3
<1>3. ASSUME NEW n \in Notifications, NEW type \in RoutingEvents, Decide(n, type)
      PROVE  /\ route' \in [Notifications -> Results!RouteStatus \cup {Results!NoRoute}]
             /\ route_reason' \in [Notifications -> Results!Reasons]
  BY <1>1, <1>3, Decisions DEF Results!RouteStatus, Results!Reasons
<1> QED
  BY <1>1, <1>2, <1>3, RouteWrites DEF RouteBookkeeping

\* A task comes to hold an entry only by taking one that is unread or pending.
LEMMA RouteMoves ==
    ASSUME PlatformInv, NEW w \in Results!Tasks, Results!TaskStep(w)
    PROVE  /\ route_at' \in [Results!Tasks -> Results!Places]
           /\ route_cur' \in [Results!Tasks -> Results!Entries \cup {NoEntry}]
           /\ \A v \in Results!Tasks :
                \/ route_at'[v] = "idle"
                \/ /\ route_at[v] # "idle" /\ route_cur'[v] = route_cur[v]
                   /\ route_at'[v] \in {"update", "count", "giveup"} =>
                        \/ route_at[v] \in {"update", "count", "giveup"}
                        \/ Results!Event(v).type \in Results!HANDLED
                \/ route_at'[v] = "handle" /\ route_cur'[v] \in route_unread \cup route_pending
<1> DEFINE Moved ==
           /\ route_at' \in [Results!Tasks -> Results!Places]
           /\ route_cur' \in [Results!Tasks -> Results!Entries \cup {NoEntry}]
           /\ \A v \in Results!Tasks :
                \/ route_at'[v] = "idle"
                \/ /\ route_at[v] # "idle" /\ route_cur'[v] = route_cur[v]
                   /\ route_at'[v] \in {"update", "count", "giveup"} =>
                        \/ route_at[v] \in {"update", "count", "giveup"}
                        \/ Results!Event(v).type \in Results!HANDLED
                \/ route_at'[v] = "handle" /\ route_cur'[v] \in route_unread \cup route_pending
<1>1. /\ route_at \in [Results!Tasks -> Results!Places]
      /\ route_cur \in [Results!Tasks -> Results!Entries \cup {NoEntry}]
      /\ route_unread \subseteq Results!Entries /\ route_pending \subseteq Results!Entries
      /\ "recoverer" \in Results!Tasks /\ "results" \in Results!Tasks
      /\ \A v \in Results!Tasks : route_at[v] # "idle" => route_cur[v] \in Results!Entries
  BY DEF PlatformInv, PlatformTypeOK, Results!TypeOK, Results!Tasks, RouteHolds
<1>2. CASE UNCHANGED <<route_at, route_cur>>
  BY <1>1, <1>2
<1>3. ASSUME NEW place \in Results!Places, route_at[w] # "idle", Results!Goto(w, place),
             place \in {"update", "count", "giveup"} =>
                 \/ route_at[w] \in {"update", "count", "giveup"}
                 \/ Results!Event(w).type \in Results!HANDLED
      PROVE  Moved
  BY <1>1, <1>3 DEF Results!Goto
<1>4. CASE Results!Done(w)
  BY <1>1, <1>4 DEF Results!Done, Results!Places
<1>5. ASSUME NEW entry \in route_unread, Results!Read(entry) PROVE Moved
  BY <1>1, <1>2, <1>5 DEF Results!Read, Results!Places, Results!tasks
<1>6. ASSUME NEW entry \in route_pending, Results!Claim(entry) PROVE Moved
  BY <1>1, <1>6 DEF Results!Claim, Results!Places
<1>7. CASE Results!Check(w)
  <2>1. /\ route_at[w] # "idle"
        /\ \/ Results!Goto(w, "ack")
           \/ Results!Event(w).type \in Results!HANDLED /\ Results!Goto(w, "update")
           \/ Results!Event(w).type \in Results!HANDLED /\ Results!Goto(w, "count")
           \/ Results!Done(w)
    BY <1>7 DEF Results!Check, Results!Raise
  <2>2. "ack" \in Results!Places /\ "update" \in Results!Places /\ "count" \in Results!Places
    BY DEF Results!Places
  <2>3. CASE Results!Goto(w, "ack")
    BY <1>3, <2>1, <2>2, <2>3
  <2>4. CASE Results!Event(w).type \in Results!HANDLED /\ Results!Goto(w, "update")
    BY <1>3, <2>1, <2>2, <2>4
  <2>5. CASE Results!Event(w).type \in Results!HANDLED /\ Results!Goto(w, "count")
    BY <1>3, <2>1, <2>2, <2>5
  <2> QED
    BY <1>4, <2>1, <2>3, <2>4, <2>5
<1>8. CASE Results!Update(w)
  <2>1. /\ route_at[w] = "update"
        /\ Results!Goto(w, "ack") \/ Results!Goto(w, "count") \/ Results!Done(w)
    BY <1>8 DEF Results!Update, Results!Raise
  <2>2. "ack" \in Results!Places /\ "count" \in Results!Places
    BY DEF Results!Places
  <2>3. CASE Results!Goto(w, "ack")
    BY <1>3, <2>1, <2>2, <2>3
  <2>4. CASE Results!Goto(w, "count")
    BY <1>3, <2>1, <2>2, <2>4
  <2> QED
    BY <1>4, <2>1, <2>3, <2>4
<1>9. CASE w = "recoverer" /\ (Results!Count \/ Results!GiveUp)
  <2>1. /\ route_at[w] \in {"count", "giveup"}
        /\ Results!Goto(w, "ack") \/ Results!Goto(w, "giveup") \/ Results!Done(w)
    BY <1>9 DEF Results!Count, Results!GiveUp
  <2>2. "ack" \in Results!Places /\ "giveup" \in Results!Places
    BY DEF Results!Places
  <2>3. CASE Results!Goto(w, "ack")
    BY <1>3, <2>1, <2>2, <2>3
  <2>4. CASE Results!Goto(w, "giveup")
    BY <1>3, <2>1, <2>2, <2>4
  <2> QED
    BY <1>4, <2>1, <2>3, <2>4
<1>10. CASE Results!Ack(w)
  BY <1>4, <1>10 DEF Results!Ack
<1> QED
  BY <1>5, <1>6, <1>7, <1>8, <1>9, <1>10 DEF Results!TaskStep

LEMMA RouteGroupStep ==
    ASSUME PlatformInv, [PlatformNext]_platformVars
    PROVE  /\ route_unread' \cup route_pending' \subseteq published'
           /\ route_unread' \subseteq Results!Entries
           /\ route_pending' \subseteq Results!Entries \ route_unread'
<1>1. /\ route_unread \cup route_pending \subseteq published
      /\ route_unread \subseteq Results!Entries
      /\ route_pending \subseteq Results!Entries \ route_unread
  BY DEF PlatformInv, RouteHolds, PlatformTypeOK, Results!TypeOK
<1>2. published \subseteq published'
  BY StepImplements, StepWrites DEF PlatformInv
<1>3. CASE UNCHANGED <<route_unread, route_pending>>
  BY <1>1, <1>2, <1>3
<1>4. ASSUME NEW w \in Results!Tasks, RouteStep(w)
      PROVE  /\ route_unread' \subseteq route_unread
             /\ route_pending' \subseteq (route_pending \cup route_unread) \ route_unread'
  BY <1>1, <1>4 DEF RouteStep, Results!TaskStep, Results!Check, Results!Update, Results!Ack,
     Results!Count, Results!GiveUp, Results!Read, Results!Claim, Results!group
<1>5. ASSUME NEW entry \in Entries, Publish(entry), route_unread' # route_unread
      PROVE  /\ route_unread' = route_unread \cup {entry} /\ route_pending' = route_pending
             /\ entry \in Results!Entries /\ entry \in published' /\ entry \notin route_pending
  BY <1>1, <1>5, Kinds DEF Publish
<1> QED
  BY <1>1, <1>2, <1>3, <1>4, <1>5 DEF PlatformNext, ServiceStep, Decide, Deliver, Publish,
     RoutingCrash, Results!Crash, Results!group, routeVars, platformVars

LEMMA RouteHoldsStep ==
    ASSUME PlatformInv, [PlatformNext]_platformVars
    PROVE  /\ route_at' \in [Results!Tasks -> Results!Places]
           /\ route_cur' \in [Results!Tasks -> Results!Entries \cup {NoEntry}]
           /\ RouteHolds'
<1>1. /\ route_at \in [Results!Tasks -> Results!Places]
      /\ route_cur \in [Results!Tasks -> Results!Entries \cup {NoEntry}]
      /\ route_unread \cup route_pending \subseteq published \cap Results!Entries
      /\ \A w \in Results!Tasks :
           /\ route_at[w] # "idle" => route_cur[w] \in published \cap Results!Entries
           /\ route_at[w] \in {"update", "count", "giveup"} => Results!Event(w).type \in Results!HANDLED
  BY DEF PlatformInv, PlatformTypeOK, Results!TypeOK, RouteHolds
<1>2. published \subseteq published'
  BY StepImplements, StepWrites DEF PlatformInv
<1>3. route_unread' \cup route_pending' \subseteq published'
  BY RouteGroupStep
<1>4. CASE UNCHANGED <<route_at, route_cur>>
  BY <1>1, <1>2, <1>3, <1>4 DEF RouteHolds, Results!Event
<1>5. ASSUME NEW w \in Results!Tasks, RouteStep(w)
      PROVE  /\ route_at' \in [Results!Tasks -> Results!Places]
             /\ route_cur' \in [Results!Tasks -> Results!Entries \cup {NoEntry}]
             /\ RouteHolds'
  <2>1. /\ route_at' \in [Results!Tasks -> Results!Places]
        /\ route_cur' \in [Results!Tasks -> Results!Entries \cup {NoEntry}]
        /\ \A v \in Results!Tasks :
                \/ route_at'[v] = "idle"
                \/ /\ route_at[v] # "idle" /\ route_cur'[v] = route_cur[v]
                   /\ route_at'[v] \in {"update", "count", "giveup"} =>
                        \/ route_at[v] \in {"update", "count", "giveup"}
                        \/ Results!Event(v).type \in Results!HANDLED
                \/ route_at'[v] = "handle" /\ route_cur'[v] \in route_unread \cup route_pending
    BY <1>5, RouteMoves DEF RouteStep
  <2> QED
    BY <1>1, <1>2, <1>3, <2>1 DEF RouteHolds, Results!Event
<1>6. CASE RoutingCrash
  BY <1>1, <1>3, <1>6 DEF RoutingCrash, Results!Crash, RouteHolds, Results!Places
<1> QED
  BY <1>4, <1>5, <1>6 DEF PlatformNext, ServiceStep, Decide, Deliver, Publish, routeVars, platformVars

LEMMA RouteFaultsStep ==
    ASSUME PlatformInv, [PlatformNext]_platformVars PROVE route_faults' \in 0 .. MaxFaults
<1>1. route_faults \in 0 .. MaxFaults /\ MaxFaults \in Nat
  BY NotificationAssumption DEF PlatformInv, PlatformTypeOK, Results!TypeOK
<1>2. Results!Fault \/ Results!NoFault => route_faults' \in 0 .. MaxFaults
  BY <1>1 DEF Results!Fault, Results!NoFault
<1>3. UNCHANGED route_faults => route_faults' \in 0 .. MaxFaults
  BY <1>1
<1>4. ASSUME NEW w \in Results!Tasks, RouteStep(w) PROVE route_faults' \in 0 .. MaxFaults
  BY <1>2, <1>3, <1>4 DEF RouteStep, Results!TaskStep, Results!Check, Results!Update, Results!Ack,
     Results!Count, Results!GiveUp, Results!Read, Results!Claim
<1> QED
  BY <1>2, <1>3, <1>4 DEF PlatformNext, ServiceStep, Decide, Deliver, Publish, RoutingCrash,
     Results!Crash, routeVars, platformVars

LEMMA DecisionsStep ==
    ASSUME PlatformInv, [PlatformNext]_platformVars
    PROVE  /\ decided' \in [Notifications -> RoutingEvents \cup {NoEvent}]
           /\ outcome' \in [Notifications -> DeliveryEvents \cup {NoEvent}]
           /\ \A n \in Notifications :
                /\ decided[n] # NoEvent => decided'[n] = decided[n]
                /\ outcome[n] # NoEvent => outcome'[n] = outcome[n]
                /\ decided'[n] # decided[n] => status[n] # Absent
                /\ outcome'[n] # outcome[n] => Published(n, "NotificationRouted")
<1>1. /\ decided \in [Notifications -> RoutingEvents \cup {NoEvent}]
      /\ outcome \in [Notifications -> DeliveryEvents \cup {NoEvent}]
  BY DEF PlatformInv, PlatformTypeOK
<1>2. \/ UNCHANGED decided
      \/ \E n \in Notifications, type \in RoutingEvents :
           /\ decided[n] = NoEvent /\ status[n] # Absent
           /\ decided' = [decided EXCEPT ![n] = type]
  BY RouteWrites, Decisions
<1>3. /\ decided' \in [Notifications -> RoutingEvents \cup {NoEvent}]
      /\ \A n \in Notifications :
           /\ decided[n] # NoEvent => decided'[n] = decided[n]
           /\ decided'[n] # decided[n] => status[n] # Absent
  BY <1>1, <1>2
<1>4. /\ outcome' \in [Notifications -> DeliveryEvents \cup {NoEvent}]
      /\ \A n \in Notifications :
           /\ outcome[n] # NoEvent => outcome'[n] = outcome[n]
           /\ outcome'[n] # outcome[n] => Published(n, "NotificationRouted")
  BY <1>1, Outcomes
<1> QED
  BY <1>3, <1>4

LEMMA PlatformTypeStep ==
    ASSUME PlatformInv, [PlatformNext]_platformVars PROVE PlatformTypeOK'
<1>1. TypeOK'
  BY StepImplements, TypeStep DEF PlatformInv
<1> QED
  BY <1>1, DecisionsStep, RouteRowsStep, RouteGroupStep, RouteHoldsStep, RouteFaultsStep
     DEF PlatformTypeOK, Results!TypeOK

----------------------------------------------------------------------------
(* Causes come before effects, and the route follows them.                 *)

LEMMA CausalityStep ==
    ASSUME PlatformInv, [PlatformNext]_platformVars PROVE Causality'
<1>1. /\ \A entry \in published : IsAnnounced(entry.event) /\ entry \in Entries
      /\ \A n \in Notifications :
           /\ decided[n] # NoEvent => status[n] # Absent
           /\ outcome[n] # NoEvent => Published(n, "NotificationRouted")
           /\ status[n] # Absent => status'[n] # Absent
  BY StepImplements, StatusStays DEF PlatformInv, Causality, IInv, TypeOK
<1>2. published \subseteq published'
  BY StepImplements, StepWrites DEF PlatformInv
<1>3. \A n \in Notifications :
           /\ decided'[n] # NoEvent => status'[n] # Absent
           /\ outcome'[n] # NoEvent => Published(n, "NotificationRouted")'
  BY <1>1, <1>2, DecisionsStep DEF Published, EventOf
<1>4. ASSUME NEW entry \in Entries, IsAnnounced(entry.event) PROVE IsAnnounced(entry.event)'
  <2>1. entry.event.notification \in Notifications /\ entry.event.type \in EventTypes
    BY DEF Entries, Events
  <2> QED
    BY <1>4, <2>1, DecisionsStep, Kinds DEF IsAnnounced
<1>5. ASSUME NEW entry \in published', entry \notin published
      PROVE  IsAnnounced(entry.event) /\ entry \in Entries
  <2>1. PICK e \in Entries : Publish(e)
    BY <1>5 DEF PlatformNext, ServiceStep, NotificationStep, TaskStep, Read, Check, Update, Ack, Count,
       GiveUp, Claim, fail_stale_processing, create, Elapse, Crash, Decide, Deliver, RouteStep,
       RoutingCrash, streams, vars, platformVars
  <2> QED
    BY <1>5, <2>1 DEF Publish
<1> QED
  BY <1>1, <1>3, <1>4, <1>5 DEF Causality

\* One row's part of RouteFollows.
Follows(n) ==
    \/ decided[n] = NoEvent /\ route[n] = Results!NoRoute
    \/ /\ decided[n] = "RoutingFailed"
       /\ route[n] = "FAILED" /\ route_reason[n] = "routing"
    \/ decided[n] = "NotificationRouted" /\ route[n] = "PROCESSING"
    \/ /\ decided[n] = "NotificationRouted"
       /\ outcome[n] \in DeliveryEvents
       /\ route[n] = Results!NewStatus(EventOf(n, outcome[n]))
       /\ route_reason[n] = Results!FailReason(EventOf(n, outcome[n]))

LEMMA FollowsStays ==
    ASSUME PlatformInv, [PlatformNext]_platformVars, NEW n \in Notifications,
           UNCHANGED <<decided[n], route[n], route_reason[n]>>
    PROVE  Follows(n)'
<1>1. Follows(n) /\ (outcome[n] # NoEvent => outcome'[n] = outcome[n])
  BY DecisionsStep DEF PlatformInv, RouteFollows, Follows
<1>2. CASE outcome[n] \in DeliveryEvents
  <2>1. outcome'[n] = outcome[n]
    BY <1>1, <1>2, Kinds
  <2> QED
    BY <1>1, <2>1 DEF Follows, EventOf, Results!NewStatus, Results!FailReason
<1>3. CASE outcome[n] \notin DeliveryEvents
  BY <1>1, <1>3 DEF Follows
<1> QED
  BY <1>2, <1>3

LEMMA RouteFollowsStep ==
    ASSUME PlatformInv, [PlatformNext]_platformVars PROVE RouteFollows'
<1>1. /\ route \in [Notifications -> Results!RouteStatus \cup {Results!NoRoute}]
      /\ route_reason \in [Notifications -> Results!Reasons]
      /\ decided \in [Notifications -> RoutingEvents \cup {NoEvent}]
  BY DEF PlatformInv, PlatformTypeOK, Results!TypeOK
<1>2. ASSUME NEW w \in Results!Tasks, route_at[w] = "update",
             Results!CommitUpdate(Results!Event(w)), UNCHANGED <<decided, outcome, published>>,
             NEW n \in Notifications
      PROVE  Follows(n)'
  <2> DEFINE event == Results!Event(w)
  <2>1. /\ event \in Results!Events /\ event.type \in Results!HANDLED
        /\ decided[event.notification] = "NotificationRouted"
        /\ outcome[event.notification] = event.type
        /\ event = EventOf(event.notification, event.type)
        /\ route' = [route EXCEPT ![event.notification] = Results!NewStatus(event)]
        /\ route_reason' = [route_reason EXCEPT ![event.notification] = Results!FailReason(event)]
    BY <1>2, RouteCommit
  <2> HIDE DEF event
  <2>2. CASE n = event.notification
    <3>1. /\ route'[n] = Results!NewStatus(event) /\ route_reason'[n] = Results!FailReason(event)
      BY <1>1, <2>1, <2>2
    <3>2. outcome'[n] = event.type /\ decided'[n] = "NotificationRouted" /\ event.type \in DeliveryEvents
      BY <1>2, <2>1, <2>2, Kinds
    <3> QED
      BY <2>1, <2>2, <3>1, <3>2 DEF Follows, EventOf, Results!NewStatus, Results!FailReason
  <2>3. CASE n # event.notification
    <3>1. UNCHANGED <<decided[n], route[n], route_reason[n]>>
      BY <1>1, <1>2, <2>1, <2>3
    <3> QED
      BY <3>1, FollowsStays
  <2> QED
    BY <2>2, <2>3
<1>3. ASSUME NEW m \in Notifications, NEW type \in RoutingEvents, Decide(m, type),
             NEW n \in Notifications
      PROVE  Follows(n)'
  <2>1. CASE n = m
    BY <1>1, <1>3, <2>1, Decisions DEF Follows, RoutingEvents
  <2>2. CASE n # m
    <3>1. UNCHANGED <<decided[n], route[n], route_reason[n]>>
      BY <1>1, <1>3, <2>2, Decisions
    <3> QED
      BY <3>1, FollowsStays
  <2> QED
    BY <2>1, <2>2
<1>4. CASE UNCHANGED <<route, route_reason, decided>>
  <2>1. \A n \in Notifications : Follows(n)'
    BY <1>4, FollowsStays
  <2> QED
    BY <2>1 DEF RouteFollows, Follows
<1>5. (\A n \in Notifications : Follows(n)') => RouteFollows'
  BY DEF RouteFollows, Follows
<1> QED
  BY <1>2, <1>3, <1>4, <1>5, RouteWrites

LEMMA RouteShowsStep ==
    ASSUME PlatformInv, [PlatformNext]_platformVars PROVE RouteShowsResult'
<1>1. /\ route \in [Notifications -> Results!RouteStatus \cup {Results!NoRoute}]
      /\ route_reason \in [Notifications -> Results!Reasons]
      /\ route_ledger \in [Results!Events -> Results!Row]
  BY DEF PlatformInv, PlatformTypeOK, Results!TypeOK
<1>2. \A event \in Results!Events :
        /\ event.notification \in Notifications
        /\ route_ledger[event].status = "PROCESSED" =>
            /\ event.type \in Results!HANDLED
            /\ route[event.notification] = Results!NewStatus(event)
            /\ route_reason[event.notification] = Results!FailReason(event)
  BY DEF PlatformInv, RouteShowsResult, Results!Events
<1>3. CASE UNCHANGED <<route, route_reason>> /\ RouteBookkeeping
  BY <1>2, <1>3 DEF RouteShowsResult, RouteBookkeeping, Results!NewStatus, Results!FailReason
<1>4. ASSUME NEW m \in Notifications, NEW type \in RoutingEvents, Decide(m, type)
      PROVE  RouteShowsResult'
  <2>1. decided[m] = NoEvent /\ UNCHANGED route_ledger
    BY <1>4, Decisions
  <2>2. route[m] = Results!NoRoute
    BY <2>1, Kinds DEF PlatformInv, RouteFollows, RoutingEvents
  <2>3. \A n \in Notifications : n # m => UNCHANGED <<route[n], route_reason[n]>>
    BY <1>1, <1>4, Decisions
  <2>4. \A event \in Results!Events : route_ledger[event].status = "PROCESSED" => event.notification # m
    BY <1>2, <2>2 DEF Results!NewStatus, Results!NoRoute
  <2> QED
    BY <1>2, <2>1, <2>3, <2>4 DEF RouteShowsResult, Results!NewStatus, Results!FailReason
<1>5. ASSUME NEW w \in Results!Tasks, route_at[w] = "update", Results!CommitUpdate(Results!Event(w))
      PROVE  RouteShowsResult'
  <2> DEFINE event == Results!Event(w)
  <2>1. /\ event \in Results!Events /\ event.type \in Results!HANDLED
        /\ outcome[event.notification] = event.type
        /\ route' = [route EXCEPT ![event.notification] = Results!NewStatus(event)]
        /\ route_reason' = [route_reason EXCEPT ![event.notification] = Results!FailReason(event)]
        /\ route_ledger' = [route_ledger EXCEPT ![event] = Results!mark_processed(@)]
    BY <1>5, RouteCommit
  <2> HIDE DEF event
  <2>2. ASSUME NEW e \in Results!Events, route_ledger'[e].status = "PROCESSED", e # event
        PROVE  /\ e.type \in Results!HANDLED
               /\ route'[e.notification] = Results!NewStatus(e)
               /\ route_reason'[e.notification] = Results!FailReason(e)
    <3>1. route_ledger[e].status = "PROCESSED"
      BY <1>1, <2>1, <2>2
    <3>2. /\ e.type \in Results!HANDLED
          /\ route[e.notification] = Results!NewStatus(e)
          /\ route_reason[e.notification] = Results!FailReason(e)
      BY <1>2, <3>1
    <3>3. CASE e.notification # event.notification
      BY <1>1, <1>2, <2>1, <3>2, <3>3
    <3>4. CASE e.notification = event.notification
      <4>1. route[e.notification] \in {"COMPLETED", "FAILED"} /\ route_reason[e.notification] # "routing"
        BY <3>2 DEF Results!NewStatus, Results!FailReason, Results!NoReason, NoReason
      <4>2. /\ route[e.notification] = Results!NewStatus(EventOf(e.notification, outcome[e.notification]))
            /\ route_reason[e.notification] = Results!FailReason(EventOf(e.notification, outcome[e.notification]))
        BY <1>2, <4>1 DEF PlatformInv, RouteFollows, Results!NoRoute
      <4>3. Results!NewStatus(e) = Results!NewStatus(event) /\ Results!FailReason(e) = Results!FailReason(event)
        BY <2>1, <3>2, <3>4, <4>2 DEF EventOf, Results!NewStatus, Results!FailReason
      <4> HIDE DEF Results!NewStatus, Results!FailReason
      <4> QED
        BY <1>1, <1>2, <2>1, <3>2, <3>4, <4>3
    <3> QED
      BY <3>3, <3>4
  <2>3. /\ route'[event.notification] = Results!NewStatus(event)
        /\ route_reason'[event.notification] = Results!FailReason(event)
    BY <1>1, <1>2, <2>1
  <2> QED
    BY <2>1, <2>2, <2>3 DEF RouteShowsResult, Results!NewStatus, Results!FailReason
<1> QED
  BY <1>3, <1>4, <1>5, RouteWrites

----------------------------------------------------------------------------
(* The consumer group of routing-service: its argument is the one of       *)
(* notification-service, with events the consumer skips.                   *)

LEMMA RouteLedgerCounts ==
    ASSUME NEW row \in Results!Row
    PROVE  /\ row.fail_count \in Nat
           /\ Results!is_processed(row) => Results!increment_fail_count(row) = row
           /\ Results!is_processed(Results!mark_processed(row))
           /\ Results!mark_processed(row).fail_count = row.fail_count
           /\ Results!mark_processed(row).status # "FAILED_PERMANENT"
           /\ Results!is_processed(Results!mark_failed_permanent(row))
           /\ Results!mark_failed_permanent(row).fail_count = row.fail_count
           /\ Results!increment_fail_count(row).fail_count \in Nat
           /\ Results!increment_fail_count(row).fail_count >= row.fail_count
           /\ Results!increment_fail_count(row).status = "FAILED_PERMANENT"
                => Results!increment_fail_count(row) = row
  BY DEF Results!Row, Results!ProcessedStatus, Results!Terminal, Results!mark_processed,
     Results!mark_failed_permanent, Results!increment_fail_count, Results!is_processed

\* A step changes its ledger by one statement, on the event of one task.
RouteLedgerWritten ==
    \/ \E w \in Results!Tasks :
         /\ route_at[w] = "update"
         /\ route_ledger' = [route_ledger EXCEPT ![Results!Event(w)] = Results!mark_processed(@)]
    \/ /\ route_at["recoverer"] = "count"
       /\ route_ledger' = [route_ledger EXCEPT
                             ![Results!Event("recoverer")] = Results!increment_fail_count(@)]
    \/ /\ route_at["recoverer"] = "giveup"
       /\ route_ledger' = [route_ledger EXCEPT
                             ![Results!Event("recoverer")] = Results!mark_failed_permanent(@)]
    \/ route_ledger' = route_ledger

LEMMA RouteLedgerWrites == ASSUME PlatformInv, [PlatformNext]_platformVars PROVE RouteLedgerWritten
<1>1. ASSUME NEW w \in Results!Tasks, RouteStep(w) PROVE RouteLedgerWritten
  <2>1. CASE Results!Update(w)
    BY <2>1 DEF Results!Update, Results!CommitUpdate, RouteLedgerWritten
  <2>2. CASE Results!Count
    BY <2>2 DEF Results!Count, RouteLedgerWritten
  <2>3. CASE Results!GiveUp
    BY <2>3 DEF Results!GiveUp, RouteLedgerWritten
  <2>4. CASE \/ Results!Check(w) \/ Results!Ack(w)
             \/ \E entry \in route_unread : Results!Read(entry)
             \/ \E entry \in route_pending : Results!Claim(entry)
    BY <2>4 DEF Results!Check, Results!Ack, Results!Read, Results!Claim, RouteLedgerWritten
  <2> QED
    BY <1>1, <2>1, <2>2, <2>3, <2>4 DEF RouteStep, Results!TaskStep
<1>2. ASSUME NEW n \in Notifications, NEW type \in RoutingEvents, Decide(n, type)
      PROVE  route_ledger' = route_ledger
  BY <1>2 DEF Decide
<1>3. ASSUME NEW n \in Notifications, NEW type \in DeliveryEvents, Deliver(n, type)
      PROVE  route_ledger' = route_ledger
  BY <1>3 DEF Deliver, routeVars
<1>4. ASSUME NEW entry \in Entries, Publish(entry) PROVE route_ledger' = route_ledger
  BY <1>4 DEF Publish
<1>5. RoutingCrash \/ UNCHANGED routeVars \/ UNCHANGED platformVars => route_ledger' = route_ledger
  BY DEF RoutingCrash, Results!Crash, routeVars, platformVars
<1> QED
  BY <1>1, <1>2, <1>3, <1>4, <1>5 DEF PlatformNext, ServiceStep, RouteLedgerWritten

\* A row only moves forward, and gives up at the recoverer's hands alone.
RouteRowMoves(event) ==
    /\ Results!is_processed(route_ledger[event]) => Results!is_processed(route_ledger'[event])
    /\ route_ledger[event].fail_count \in Nat /\ route_ledger'[event].fail_count \in Nat
    /\ route_ledger'[event].fail_count >= route_ledger[event].fail_count
    /\ route_ledger'[event].status = "FAILED_PERMANENT" =>
         \/ route_ledger[event].status = "FAILED_PERMANENT"
         \/ route_at["recoverer"] = "giveup" /\ event = Results!Event("recoverer")

LEMMA RouteRowsMove ==
    ASSUME PlatformInv, [PlatformNext]_platformVars, NEW event \in Results!Events
    PROVE  RouteRowMoves(event)
<1>1. /\ route_ledger \in [Results!Events -> Results!Row] /\ route_ledger[event] \in Results!Row
      /\ "recoverer" \in Results!Tasks
  BY DEF PlatformInv, PlatformTypeOK, Results!TypeOK, Results!Tasks
<1>2. /\ route_ledger[event].fail_count \in Nat
      /\ route_ledger[event].fail_count >= route_ledger[event].fail_count
  BY <1>1, RouteLedgerCounts
<1>3. CASE route_ledger'[event] = route_ledger[event]
  BY <1>2, <1>3 DEF RouteRowMoves
<1>4. CASE route_ledger'[event] = Results!mark_processed(route_ledger[event])
  BY <1>1, <1>2, <1>4, RouteLedgerCounts DEF RouteRowMoves
<1>5. CASE route_ledger'[event] = Results!increment_fail_count(route_ledger[event])
  <2>1. Results!is_processed(route_ledger[event]) => Results!is_processed(route_ledger'[event])
    BY <1>1, <1>5, RouteLedgerCounts
  <2> QED
    BY <1>1, <1>2, <1>5, <2>1, RouteLedgerCounts DEF RouteRowMoves
<1>6. CASE /\ route_ledger'[event] = Results!mark_failed_permanent(route_ledger[event])
           /\ route_at["recoverer"] = "giveup" /\ event = Results!Event("recoverer")
  BY <1>1, <1>2, <1>6, RouteLedgerCounts DEF RouteRowMoves
<1>7. \/ route_ledger'[event] = route_ledger[event]
      \/ route_ledger'[event] = Results!mark_processed(route_ledger[event])
      \/ route_ledger'[event] = Results!increment_fail_count(route_ledger[event])
      \/ /\ route_ledger'[event] = Results!mark_failed_permanent(route_ledger[event])
         /\ route_at["recoverer"] = "giveup" /\ event = Results!Event("recoverer")
  BY <1>1, RouteLedgerWrites DEF RouteLedgerWritten
<1> QED
  BY <1>3, <1>4, <1>5, <1>6, <1>7

\* Who comes to acknowledge has skipped or handled its event; the recoverer
\* comes to give up from a count that reached the limit.
RouteAdvances(v) ==
    /\ route_at'[v] = "ack" =>
         /\ route_cur'[v] = route_cur[v] /\ route_at[v] # "idle"
         /\ \/ route_at[v] = "ack"
            \/ Results!Event(v).type \notin Results!HANDLED
            \/ Results!is_processed(route_ledger'[Results!Event(v)])
    /\ route_at'[v] = "giveup" =>
         /\ route_cur'[v] = route_cur[v] /\ route_at[v] # "idle"
         /\ \/ route_at[v] = "giveup"
            \/ v = "recoverer" /\ route_ledger'[Results!Event(v)].fail_count >= MaxRetries

LEMMA RouteTaskAdvances ==
    ASSUME PlatformInv, NEW w \in Results!Tasks, Results!TaskStep(w), NEW v \in Results!Tasks
    PROVE  RouteAdvances(v)
<1>1. /\ route_at \in [Results!Tasks -> Results!Places]
      /\ route_cur \in [Results!Tasks -> Results!Entries \cup {NoEntry}]
      /\ route_ledger \in [Results!Events -> Results!Row]
      /\ "recoverer" \in Results!Tasks /\ "results" \in Results!Tasks
  BY DEF PlatformInv, PlatformTypeOK, Results!TypeOK, Results!Tasks
<1>2. Results!Done(w) => RouteAdvances(v)
  BY <1>1 DEF Results!Done, RouteAdvances
<1>3. ASSUME NEW place, Results!Goto(w, place), route_at[w] # "idle",
             place = "ack" => \/ Results!Event(w).type \notin Results!HANDLED
                              \/ Results!is_processed(route_ledger'[Results!Event(w)]),
             place = "giveup" =>
                 w = "recoverer" /\ route_ledger'[Results!Event(w)].fail_count >= MaxRetries
      PROVE  RouteAdvances(v)
  BY <1>1, <1>3 DEF Results!Goto, RouteAdvances
<1>4. ASSUME NEW e \in route_unread, Results!Read(e) PROVE RouteAdvances(v)
  BY <1>1, <1>4 DEF Results!Read, Results!tasks, RouteAdvances
<1>5. ASSUME NEW e \in route_pending, Results!Claim(e) PROVE RouteAdvances(v)
  BY <1>1, <1>5 DEF Results!Claim, RouteAdvances
<1>6. route_at[w] # "idle" /\ Results!Raise(w) => RouteAdvances(v)
  BY <1>2, <1>3 DEF Results!Raise
<1>7. CASE Results!Check(w)
  <2>1. route_at[w] # "idle" /\ route_ledger' = route_ledger
    BY <1>7 DEF Results!Check
  <2>2. \/ Results!Raise(w)
        \/ /\ \/ Results!Event(w).type \notin Results!HANDLED
              \/ Results!is_processed(route_ledger[Results!Event(w)])
           /\ Results!Goto(w, "ack")
        \/ Results!Goto(w, "update")
    BY <1>7 DEF Results!Check
  <2> QED
    BY <1>3, <1>6, <2>1, <2>2
<1>8. CASE Results!Update(w)
  <2>1. route_at[w] # "idle"
    BY <1>8 DEF Results!Update
  <2>2. Results!Raise(w) \/ (Results!CommitUpdate(Results!Event(w)) /\ Results!Goto(w, "ack"))
    BY <1>8 DEF Results!Update
  <2>3. Results!CommitUpdate(Results!Event(w)) =>
          Results!is_processed(route_ledger'[Results!Event(w)])
    BY <1>1, <2>1, RouteHeld, RouteLedgerCounts DEF Results!CommitUpdate
  <2> QED
    BY <1>3, <1>6, <2>1, <2>2, <2>3
<1>9. CASE Results!Ack(w)
  BY <1>2, <1>9 DEF Results!Ack
<1>10. CASE w = "recoverer" /\ Results!Count
  <2> DEFINE event == Results!Event("recoverer")
  <2>1. route_at[w] # "idle" /\ w = "recoverer"
    BY <1>10 DEF Results!Count
  <2>2. event \in Results!Events /\ route_ledger[event] \in Results!Row
    BY <1>1, <2>1, RouteHeld
  <2>3. \/ Results!Done(w)
        \/ /\ route_ledger' = [route_ledger EXCEPT ![event] = Results!increment_fail_count(@)]
           /\ \/ Results!is_processed(route_ledger[event]) /\ Results!Goto(w, "ack")
              \/ /\ Results!increment_fail_count(route_ledger[event]).fail_count >= MaxRetries
                 /\ Results!Goto(w, "giveup")
    BY <1>10 DEF Results!Count, Results!should_give_up
  <2>4. route_ledger' = [route_ledger EXCEPT ![event] = Results!increment_fail_count(@)] =>
          route_ledger'[event] = Results!increment_fail_count(route_ledger[event])
    BY <1>1, <2>2
  <2>5. Results!is_processed(route_ledger[event]) =>
          Results!increment_fail_count(route_ledger[event]) = route_ledger[event]
    BY <2>2, RouteLedgerCounts
  <2> QED
    BY <1>2, <1>3, <2>1, <2>3, <2>4, <2>5
<1>11. CASE w = "recoverer" /\ Results!GiveUp
  <2> DEFINE event == Results!Event("recoverer")
  <2>1. route_at[w] # "idle" /\ w = "recoverer"
    BY <1>11 DEF Results!GiveUp
  <2>2. event \in Results!Events
    BY <2>1, RouteHeld
  <2>3. \/ Results!Done(w)
        \/ /\ route_ledger' = [route_ledger EXCEPT ![event] = Results!mark_failed_permanent(@)]
           /\ Results!Goto(w, "ack")
    BY <1>11 DEF Results!GiveUp
  <2>4. route_ledger' = [route_ledger EXCEPT ![event] = Results!mark_failed_permanent(@)] =>
          Results!is_processed(route_ledger'[event])
    BY <1>1, <2>2, RouteLedgerCounts
  <2> QED
    BY <1>2, <1>3, <2>1, <2>3, <2>4
<1> QED
  BY <1>4, <1>5, <1>7, <1>8, <1>9, <1>10, <1>11 DEF Results!TaskStep

LEMMA RouteAdvanceStep ==
    ASSUME PlatformInv, [PlatformNext]_platformVars, NEW v \in Results!Tasks PROVE RouteAdvances(v)
<1>1. route_at \in [Results!Tasks -> Results!Places] /\ "idle" # "ack" /\ "idle" # "giveup"
  BY DEF PlatformInv, PlatformTypeOK, Results!TypeOK
<1>2. CASE RoutingCrash
  BY <1>2 DEF RoutingCrash, Results!Crash, RouteAdvances
<1>3. CASE UNCHANGED <<route_at, route_cur>>
  BY <1>3 DEF RouteAdvances
<1> QED
  BY <1>2, <1>3, RouteTaskAdvances DEF PlatformNext, ServiceStep, RouteStep, Decide, Deliver, Publish,
     routeVars, platformVars

\* A handled entry leaves the group by an acknowledgement.
LEMMA RouteLeavesGroup ==
    ASSUME PlatformInv, [PlatformNext]_platformVars,
           NEW entry \in published' \ (route_unread' \cup route_pending'),
           entry.event.type \in Results!HANDLED
    PROVE  /\ entry \in published
           /\ \/ entry \notin route_unread \cup route_pending
              \/ \E w \in Results!Tasks : route_at[w] = "ack" /\ route_cur[w] = entry
<1> DEFINE Left == /\ entry \in published
                   /\ \/ entry \notin route_unread \cup route_pending
                      \/ \E w \in Results!Tasks : route_at[w] = "ack" /\ route_cur[w] = entry
<1>1. CASE UNCHANGED <<published, route_unread, route_pending>>
  BY <1>1
<1>2. ASSUME NEW w \in Results!Tasks, RouteStep(w) PROVE Left
  <2>1. published' = published
    BY <1>2 DEF RouteStep, vars, streams
  <2>2. ASSUME NEW e \in route_unread, Results!Read(e) PROVE Left
    BY <2>1, <2>2 DEF Results!Read
  <2>3. CASE Results!Ack(w)
    BY <2>1, <2>3 DEF Results!Ack
  <2>4. CASE UNCHANGED <<route_unread, route_pending>>
    BY <1>1, <2>1, <2>4
  <2> QED
    BY <1>2, <2>2, <2>3, <2>4 DEF RouteStep, Results!TaskStep, Results!Check, Results!Update,
       Results!Count, Results!GiveUp, Results!Claim, Results!group
<1>3. ASSUME NEW e \in Entries, Publish(e) PROVE Left
  <2>1. published' = published \cup {e} /\ route_pending' = route_pending
    BY <1>3 DEF Publish
  <2>2. route_unread' = IF e.event.type \in ResultTypes THEN route_unread \cup {e} ELSE route_unread
    BY <1>3 DEF Publish
  <2>3. entry # e
    BY <2>2, Kinds
  <2> QED
    BY <2>1, <2>2, <2>3
<1>4. ASSUME NotificationStep, UNCHANGED routeVars PROVE Left
  <2>1. published' = published
    BY <1>4 DEF NotificationStep, TaskStep, Read, Check, Update, Ack, Count, GiveUp, Claim,
       fail_stale_processing, create, Elapse, Crash, streams
  <2> QED
    BY <1>1, <1>4, <2>1 DEF routeVars
<1>5. ASSUME NEW n \in Notifications,
             \/ \E type \in RoutingEvents : Decide(n, type)
             \/ \E type \in DeliveryEvents : Deliver(n, type)
      PROVE  Left
  BY <1>1, <1>5 DEF Decide, Deliver, routeVars, vars, streams
<1>6. RoutingCrash \/ UNCHANGED platformVars => Left
  BY <1>1 DEF RoutingCrash, Results!Crash, Results!group, platformVars, routeVars, vars, streams
<1> QED
  BY <1>2, <1>3, <1>4, <1>5, <1>6 DEF PlatformNext, ServiceStep

LEMMA PlatformGroupStep ==
    ASSUME PlatformInv, PlatformGroupInv, [PlatformNext]_platformVars PROVE PlatformGroupInv'
<1>1. GroupInv'
  BY StepImplements, GroupStep DEF PlatformInv, PlatformGroupInv
<1>2. \A event \in Results!Events : RouteRowMoves(event)
  BY RouteRowsMove
<1>3. \A w \in Results!Tasks : route_at[w] # "idle" => Results!Event(w) \in Results!Events
  BY RouteHeld
<1>4. "recoverer" \in Results!Tasks /\ MaxRetries \in Nat
  BY NotificationAssumption DEF Results!Tasks
<1>5. Results!AcksHandled'
  <2> SUFFICES ASSUME NEW w \in Results!Tasks, route_at'[w] = "ack",
                      route_cur'[w].event.type \in Results!HANDLED
               PROVE  Results!is_processed(route_ledger'[route_cur'[w].event])
    BY DEF Results!AcksHandled, Results!Event
  <2>1. /\ route_cur'[w] = route_cur[w] /\ route_at[w] # "idle"
        /\ \/ route_at[w] = "ack"
           \/ Results!Event(w).type \notin Results!HANDLED
           \/ Results!is_processed(route_ledger'[Results!Event(w)])
    BY RouteAdvanceStep DEF RouteAdvances
  <2>2. Results!Event(w).type \in Results!HANDLED
    BY <2>1 DEF Results!Event
  <2>3. route_at[w] = "ack" => Results!is_processed(route_ledger[Results!Event(w)])
    BY <2>2 DEF PlatformGroupInv, Results!AcksHandled
  <2>4. Results!is_processed(route_ledger'[Results!Event(w)])
    BY <1>2, <1>3, <2>1, <2>2, <2>3 DEF RouteRowMoves
  <2> QED
    BY <2>1, <2>4 DEF Results!Event
<1>6. Results!NothingLost(published)'
  <2> SUFFICES ASSUME NEW entry \in published', entry.event.type \in Results!HANDLED,
                      entry \notin route_unread' \cup route_pending'
               PROVE  Results!is_processed(route_ledger'[entry.event])
    BY DEF Results!NothingLost
  <2>1. /\ entry \in published
        /\ \/ entry \notin route_unread \cup route_pending
           \/ \E w \in Results!Tasks : route_at[w] = "ack" /\ route_cur[w] = entry
    BY RouteLeavesGroup
  <2>2. entry.event \in Results!Events
    BY <2>1, Kinds DEF PlatformInv, IInv, TypeOK, Results!Entries
  <2>3. Results!is_processed(route_ledger[entry.event])
    BY <2>1 DEF PlatformGroupInv, Results!NothingLost, Results!AcksHandled, Results!Event
  <2> QED
    BY <1>2, <2>2, <2>3 DEF RouteRowMoves
<1>7. Results!GivesUpExhausted'
  <2> SUFFICES ASSUME route_at'["recoverer"] = "giveup"
               PROVE  route_ledger'[route_cur'["recoverer"].event].fail_count >= MaxRetries
    BY DEF Results!GivesUpExhausted, Results!Event
  <2>1. /\ route_cur'["recoverer"] = route_cur["recoverer"] /\ route_at["recoverer"] # "idle"
        /\ \/ route_at["recoverer"] = "giveup"
           \/ route_ledger'[Results!Event("recoverer")].fail_count >= MaxRetries
    BY <1>4, RouteAdvanceStep DEF RouteAdvances
  <2>2. route_at["recoverer"] = "giveup" =>
          route_ledger[Results!Event("recoverer")].fail_count >= MaxRetries
    BY DEF PlatformGroupInv, Results!GivesUpExhausted
  <2>3. route_ledger'[Results!Event("recoverer")].fail_count >= MaxRetries
    BY <1>2, <1>3, <1>4, <2>1, <2>2 DEF RouteRowMoves
  <2> QED
    BY <2>1, <2>3 DEF Results!Event
<1>8. Results!GiveUpAfterMaxRetries'
  <2> SUFFICES ASSUME NEW event \in Results!Events, route_ledger'[event].status = "FAILED_PERMANENT"
               PROVE  route_ledger'[event].fail_count >= MaxRetries
    BY DEF Results!GiveUpAfterMaxRetries, Results!GivenUp, Results!Events, Results!EventTypes,
       Results!HANDLED
  <2>1. RouteRowMoves(event)
    BY <1>2
  <2>2. route_ledger[event].fail_count >= MaxRetries
    BY <2>1 DEF RouteRowMoves, PlatformGroupInv, Results!GivesUpExhausted,
       Results!GiveUpAfterMaxRetries, Results!GivenUp
  <2> QED
    BY <1>4, <2>1, <2>2 DEF RouteRowMoves
<1> QED
  BY <1>1, <1>5, <1>6, <1>7, <1>8 DEF PlatformGroupInv

\* What an entry that left a group leaves behind: the row is closed, or the
\* event was given up.
LEMMA GroupInvDrops == PlatformInv /\ PlatformGroupInv => NoResultDropped
<1> SUFFICES ASSUME PlatformInv, PlatformGroupInv,
                    NEW entry \in published, entry.event.type \in ResultTypes,
                    NEW event, event = entry.event, NEW n, n = event.notification
             PROVE  /\ \/ entry \in unread \cup pending
                       \/ Closed(n)
                       \/ GivenUp(event) /\ Exhausted(event)
                    /\ \/ entry \in route_unread \cup route_pending
                       \/ RouteClosed(n)
                       \/ /\ event.type \in Results!HANDLED
                          /\ Results!GivenUp(event)
                          /\ route_ledger[event].fail_count >= MaxRetries
  BY DEF NoResultDropped
<1>1. /\ event \in Events /\ n \in Notifications /\ event.type \in ResultTypes
      /\ event \in Results!Events /\ event = EventOf(n, event.type)
  <2>1. entry \in Entries
    BY DEF PlatformInv, IInv, TypeOK
  <2> QED
    BY <2>1, Kinds DEF Entries, Events, Results!Entries, EventOf
<1>2. ledger[event] \in Row /\ route_ledger[event] \in Results!Row
  BY <1>1 DEF PlatformInv, IInv, TypeOK, PlatformTypeOK, Results!TypeOK
<1>3. ASSUME entry \notin unread \cup pending
      PROVE  Closed(n) \/ (GivenUp(event) /\ Exhausted(event))
  <2>1. ledger[event].status \in {"PROCESSED", "FAILED_PERMANENT"}
    BY <1>3 DEF PlatformGroupInv, GroupInv, NothingLost, is_processed, Terminal
  <2>2. CASE ledger[event].status = "PROCESSED"
    <3>1. status[n] = NewStatus(event) \/ status[n] = "FAILED"
      BY <1>1, <2>2 DEF PlatformInv, IInv, ResultApplied
    <3>2. NewStatus(event) \in {"COMPLETED", "FAILED"}
      BY <1>1, NewStatusTyped
    <3> QED
      BY <3>1, <3>2 DEF Closed
  <2>3. CASE ledger[event].status = "FAILED_PERMANENT"
    BY <1>1, <2>3 DEF PlatformGroupInv, GroupInv, GiveUpAfterMaxRetries, GivenUp
  <2> QED
    BY <2>1, <2>2, <2>3
<1>4. CASE event.type \notin Results!HANDLED
  <2>1. event.type = "RoutingFailed"
    BY <1>1, <1>4, Kinds
  <2>2. Published(n, "RoutingFailed")
    BY <1>1, <2>1 DEF Published
  <2>3. decided[n] = "RoutingFailed"
    BY <1>1, <2>2, PublishedIsAnnounced, Kinds DEF RoutingEvents
  <2>4. route[n] = "FAILED"
    BY <1>1, <2>3 DEF PlatformInv, RouteFollows, NoEvent
  <2> QED
    BY <1>3, <2>4 DEF RouteClosed
<1>5. CASE event.type \in Results!HANDLED
  <2>1. ASSUME entry \notin route_unread \cup route_pending
        PROVE  RouteClosed(n) \/ (Results!GivenUp(event) /\ route_ledger[event].fail_count >= MaxRetries)
    <3>1. route_ledger[event].status \in {"PROCESSED", "FAILED_PERMANENT"}
      BY <1>5, <2>1 DEF PlatformGroupInv, Results!NothingLost, Results!is_processed, Results!Terminal
    <3>2. CASE route_ledger[event].status = "PROCESSED"
      BY <1>1, <3>2 DEF PlatformInv, RouteShowsResult, Results!NewStatus, RouteClosed
    <3>3. CASE route_ledger[event].status = "FAILED_PERMANENT"
      BY <1>1, <3>3 DEF PlatformGroupInv, Results!GiveUpAfterMaxRetries, Results!GivenUp
    <3> QED
      BY <3>1, <3>2, <3>3
  <2> QED
    BY <1>3, <1>5, <2>1
<1> QED
  BY <1>4, <1>5

----------------------------------------------------------------------------
(* The theorems.                                                           *)

LEMMA PlatformInvInit == PlatformInit => PlatformInv
<1> SUFFICES ASSUME PlatformInit PROVE PlatformInv
  OBVIOUS
<1>1. IInv
  BY InvInit DEF PlatformInit
<1>2. PlatformTypeOK
  BY <1>1, NotificationAssumption DEF PlatformInit, PlatformTypeOK, IInv, Routing!Init, Delivery!Init,
     Results!Init, Results!TypeOK, Results!Reasons, Results!NoReason, NoReason, Results!Places,
     Results!NoRow, Results!Row, Results!Tasks
<1>3. Causality /\ RouteHolds
  BY DEF PlatformInit, Init, Routing!Init, Delivery!Init, Results!Init, Causality, RouteHolds
<1>4. RouteFollows /\ RouteShowsResult
  BY DEF PlatformInit, Routing!Init, Results!Init, RouteFollows, RouteShowsResult, Results!NoRow,
     Results!Events
<1> QED
  BY <1>1, <1>2, <1>3, <1>4 DEF PlatformInv

LEMMA PlatformInvStep == PlatformInv /\ [PlatformNext]_platformVars => PlatformInv'
<1> SUFFICES ASSUME PlatformInv, [PlatformNext]_platformVars PROVE PlatformInv'
  OBVIOUS
<1>1. IInv'
  BY StepImplements, InvStep DEF PlatformInv
<1> QED
  BY <1>1, PlatformTypeStep, CausalityStep, RouteHoldsStep, RouteFollowsStep, RouteShowsStep
     DEF PlatformInv

\* The inductive invariant of the composition holds in every reachable state.
THEOREM PlatformInvariant == PlatformSpec => []PlatformInv
<1> QED
  BY PlatformInvInit, PlatformInvStep, PTL DEF PlatformSpec

\* The assumption notification-service makes about the other services follows
\* from their contracts: the platform implements NotificationService's Spec.
THEOREM PlatformImplements == PlatformSpec => ImplementsNotification
<1>1. PlatformInit => Init
  BY DEF PlatformInit
<1>2. PlatformInv /\ [PlatformNext]_platformVars => [Next]_vars
  BY StepImplements
<1> QED
  BY <1>1, <1>2, PlatformInvariant, PTL DEF PlatformSpec, ImplementsNotification, Spec

\* Every variable of the composition keeps its type.
THEOREM PlatformTypeCorrect == PlatformSpec => []PlatformTypeOK
<1>1. PlatformInv => PlatformTypeOK
  BY DEF PlatformInv
<1> QED
  BY <1>1, PlatformInvariant, PTL

\* A delivery result that routing-service handled is what the route shows.
THEOREM RouteShows == PlatformSpec => []RouteShowsResult
<1>1. PlatformInv => RouteShowsResult
  BY DEF PlatformInv
<1> QED
  BY <1>1, PlatformInvariant, PTL

\* The notification, its route and its delivery never contradict each other.
LEMMA InvAgrees == PlatformInv => Agreement
<1> SUFFICES ASSUME PlatformInv, NEW n \in Notifications
             PROVE  /\ status[n] = "COMPLETED" => outcome[n] = "DeliveryCompleted"
                    /\ Closed(n) /\ RouteClosed(n) =>
                         \/ fail_reason[n] = PROCESSING_TIMEOUT
                         \/ status[n] = route[n] /\ fail_reason[n] = route_reason[n]
  BY DEF Agreement
<1>1. CASE ~Closed(n)
  BY <1>1 DEF Closed
<1>2. CASE status[n] = "FAILED" /\ fail_reason[n] = PROCESSING_TIMEOUT
  BY <1>2
<1>3. ASSUME NEW type \in ResultTypes, Published(n, type),
             status[n] = NewStatus(EventOf(n, type)), fail_reason[n] = FailReason(EventOf(n, type))
      PROVE  /\ status[n] = "COMPLETED" => outcome[n] = "DeliveryCompleted"
             /\ RouteClosed(n) => status[n] = route[n] /\ fail_reason[n] = route_reason[n]
  <2>1. /\ type \in RoutingEvents => decided[n] = type
        /\ type \in DeliveryEvents => outcome[n] = type
    BY <1>3, PublishedIsAnnounced, Kinds
  <2>2. CASE type = "RoutingFailed"
    <3>1. decided[n] = "RoutingFailed"
      BY <2>1, <2>2 DEF RoutingEvents
    <3>2. route[n] = "FAILED" /\ route_reason[n] = "routing"
      BY <3>1 DEF PlatformInv, RouteFollows, NoEvent
    <3> QED
      BY <1>3, <2>2, <3>2 DEF NewStatus, FailReason, EventOf
  <2>3. CASE type \in DeliveryEvents
    <3>1. outcome[n] = type /\ Published(n, "NotificationRouted")
      BY <2>1, <2>3, Kinds DEF PlatformInv, Causality
    <3>2. decided[n] = "NotificationRouted"
      BY <3>1, PublishedIsAnnounced, Kinds DEF RoutingEvents
    <3>3. RouteClosed(n) => /\ route[n] = Results!NewStatus(EventOf(n, type))
                            /\ route_reason[n] = Results!FailReason(EventOf(n, type))
      BY <3>1, <3>2 DEF PlatformInv, RouteFollows, NoEvent, RouteClosed
    <3> QED
      BY <1>3, <2>3, <3>1, <3>3 DEF DeliveryEvents, NewStatus, FailReason, EventOf, Results!NewStatus,
         Results!FailReason, Results!NoReason, NoReason
  <2> QED
    BY <2>2, <2>3, Kinds
<1> QED
  BY <1>1, <1>2, <1>3 DEF PlatformInv, IInv, ClosedForCause

\* A notification is COMPLETED only if its delivery was recorded as such, and
\* two closed rows of one notification agree, but for the watchdog's.
THEOREM DatabasesAgree == PlatformSpec => []Agreement
<1> QED
  BY InvAgrees, PlatformInvariant, PTL

\* The groups of both services keep every entry until it is handled or given up.
THEOREM PlatformGroups == PlatformSpec => [](PlatformInv /\ PlatformGroupInv)
<1>1. PlatformInit => PlatformGroupInv
  <2>1. PlatformInit => GroupInv
    BY GroupInit DEF PlatformInit
  <2> QED
    BY <2>1 DEF PlatformInit, Init, Results!Init, PlatformGroupInv, Results!AcksHandled,
       Results!NothingLost, Results!GivesUpExhausted, Results!GiveUpAfterMaxRetries, Results!GivenUp,
       Results!NoRow, Results!Tasks
<1>2. PlatformInv /\ PlatformGroupInv /\ [PlatformNext]_platformVars => (PlatformInv /\ PlatformGroupInv)'
  BY PlatformInvStep, PlatformGroupStep
<1> QED
  BY <1>1, <1>2, PlatformInvInit, PTL DEF PlatformSpec

\* No published result is dropped by either of the services it closes a row of,
\* unless that service gave up on it after MaxRetries counted failures.
THEOREM ResultsReachTheirRows == PlatformSpec => []NoResultDropped
<1> QED
  BY GroupInvDrops, PlatformGroups, PTL

\* One route's part of RouteMonotonic.
RouteMovesOn(n) ==
    \/ UNCHANGED <<route[n], route_reason[n]>>
    \/ route[n] = Results!NoRoute /\ route'[n] \in {"PROCESSING", "FAILED"}
    \/ route[n] = "PROCESSING" /\ route'[n] \in {"COMPLETED", "FAILED"}

LEMMA RouteMonotonicStep ==
    ASSUME PlatformInv, [PlatformNext]_platformVars, NEW n \in Notifications
    PROVE  RouteMovesOn(n)
<1>1. /\ route \in [Notifications -> Results!RouteStatus \cup {Results!NoRoute}]
      /\ route_reason \in [Notifications -> Results!Reasons]
  BY DEF PlatformInv, PlatformTypeOK, Results!TypeOK
<1>2. CASE UNCHANGED <<route, route_reason>>
  BY <1>2 DEF RouteMovesOn
<1>3. ASSUME NEW m \in Notifications, NEW type \in RoutingEvents, Decide(m, type)
      PROVE  RouteMovesOn(n)
  <2>1. route[m] = Results!NoRoute
    BY <1>3, Decisions DEF PlatformInv, RouteFollows, NoEvent
  <2> QED
    BY <1>1, <1>3, <2>1, Decisions DEF RouteMovesOn
<1>4. ASSUME NEW w \in Results!Tasks, route_at[w] = "update",
             Results!CommitUpdate(Results!Event(w))
      PROVE  RouteMovesOn(n)
  <2> DEFINE event == Results!Event(w)
             m == event.notification
  <2>1. /\ event \in Results!Events /\ decided[m] = "NotificationRouted" /\ outcome[m] = event.type
        /\ event = EventOf(m, event.type)
        /\ route' = [route EXCEPT ![m] = Results!NewStatus(event)]
        /\ route_reason' = [route_reason EXCEPT ![m] = Results!FailReason(event)]
    BY <1>4, RouteCommit
  <2>2. m \in Notifications
    BY <2>1 DEF Results!Events
  <2>3. \/ route[m] = "PROCESSING"
        \/ route[m] = Results!NewStatus(event) /\ route_reason[m] = Results!FailReason(event)
    <3>1. RouteFollows
      BY DEF PlatformInv
    <3> HIDE DEF event
    <3> QED
      BY <2>1, <2>2, <3>1 DEF RouteFollows, NoEvent
  <2>4. Results!NewStatus(event) \in {"COMPLETED", "FAILED"}
    BY DEF Results!NewStatus
  <2> HIDE DEF event
  <2> QED
    BY <1>1, <2>1, <2>2, <2>3, <2>4 DEF RouteMovesOn
<1> QED
  BY <1>2, <1>3, <1>4, RouteWrites

\* A route takes only the transitions of its decision and its one result.
THEOREM RouteIsMonotonic == PlatformSpec => RouteMonotonic
<1>1. PlatformInv /\ [PlatformNext]_platformVars =>
        [\A n \in Notifications :
           \/ UNCHANGED <<route[n], route_reason[n]>>
           \/ route[n] = Results!NoRoute /\ route'[n] \in {"PROCESSING", "FAILED"}
           \/ route[n] = "PROCESSING" /\ route'[n] \in {"COMPLETED", "FAILED"}]_platformVars
  BY RouteMonotonicStep DEF RouteMovesOn
<1> QED
  BY <1>1, PlatformInvariant, PTL DEF PlatformSpec, RouteMonotonic

----------------------------------------------------------------------------
(* The platform implements Lifecycle: each step is one of a notification's *)
(* life, or none of its rows changes.                                      *)

LifeOrStutter == Life!Next \/ UNCHANGED Life!vars

\* The end of a notification is the event that was published about it.
LEMMA PublishedEnds ==
    ASSUME PlatformInv, NEW event \in Events, event.type \in ResultTypes,
           Published(event.notification, event.type)
    PROVE  /\ Life!EndsAs(event.notification, NewStatus(event), FailReason(event))
           /\ NewStatus(event) \in {"COMPLETED", "FAILED"}
           /\ FailReason(event) \in {"none", "delivery", "routing"}
<1> DEFINE n == event.notification
<1>1. n \in Notifications /\ event.type \in EventTypes
  BY DEF Events
<1>2. /\ event.type \in RoutingEvents => decided[n] = event.type
      /\ event.type \in DeliveryEvents => outcome[n] = event.type
  BY <1>1, PublishedIsAnnounced
<1>3. event.type \in {"DeliveryCompleted", "DeliveryFailed", "RoutingFailed"}
  BY DEF ResultTypes
<1> QED
  BY <1>2, <1>3 DEF RoutingEvents, DeliveryEvents, Life!EndsAs, NewStatus, FailReason, NoReason

\* A commit of notification-service shows what is under way, or its end.
LEMMA CommitShows ==
    ASSUME PlatformInv, NEW w \in Tasks, at[w] = "update", CommitUpdate(Event(w)),
           UNCHANGED <<decided, outcome, route, route_reason>>
    PROVE  LifeOrStutter
<1> DEFINE event == Event(w)
           n == event.notification
<1>1. event \in Events /\ Published(n, event.type) /\ n \in Notifications /\ event.type \in EventTypes
  BY Held DEF PlatformInv
<1>2. /\ status \in [Notifications -> NotificationStatus \cup {Absent}]
      /\ fail_reason \in [Notifications -> Reasons]
  BY DEF PlatformInv, IInv, TypeOK
<1>3. \/ status[n] \in AllowedFrom(event) /\ Life!ShowStatus(n, NewStatus(event), FailReason(event))
      \/ UNCHANGED <<status, fail_reason>>
  BY DEF CommitUpdate, advance_status, rows, Life!ShowStatus
<1>4. CASE UNCHANGED <<status, fail_reason>>
  BY <1>4 DEF LifeOrStutter, Life!vars
<1>5. CASE /\ event.type = "NotificationRouted"
           /\ status[n] \in AllowedFrom(event)
           /\ Life!ShowStatus(n, NewStatus(event), FailReason(event))
  <2>1. decided[n] = "NotificationRouted"
    BY <1>1, <1>5, PublishedIsAnnounced DEF RoutingEvents
  <2>2. AllowedFrom(event) = {"CREATED"} /\ NewStatus(event) = "PROCESSING" /\ FailReason(event) = "none"
    BY <1>1, <1>5 DEF AllowedFrom, NewStatus, FailReason, NoReason
  <2>3. status[n] = "CREATED" /\ Life!ShowStatus(n, "PROCESSING", "none")
    BY <1>5, <2>2
  <2>4. Life!ShowUnderWay(n)
    BY <2>1, <2>3 DEF Life!ShowUnderWay
  <2> QED
    BY <1>1, <2>4 DEF LifeOrStutter, Life!Next
<1>6. CASE /\ event.type \in ResultTypes
           /\ status[n] \in AllowedFrom(event)
           /\ Life!ShowStatus(n, NewStatus(event), FailReason(event))
  <2>1. status[n] \in {"CREATED", "PROCESSING"}
    BY <1>1, <1>6, NewStatusTyped DEF NON_TERMINAL
  <2>2. /\ Life!EndsAs(n, NewStatus(event), FailReason(event))
        /\ NewStatus(event) \in {"COMPLETED", "FAILED"}
        /\ FailReason(event) \in {"none", "delivery", "routing"}
    BY <1>1, <1>6, PublishedEnds
  <2>3. Life!ShowEnd(n, NewStatus(event), FailReason(event))
    BY <1>6, <2>1, <2>2 DEF Life!ShowEnd
  <2> HIDE DEF event
  <2> QED
    BY <1>1, <2>2, <2>3 DEF LifeOrStutter, Life!Next
<1> QED
  BY <1>1, <1>3, <1>4, <1>5, <1>6 DEF EventTypes

\* Whatever else notification-service does is part of a life too.
LEMMA NotificationLives ==
    ASSUME PlatformInv, [PlatformNext]_platformVars,
           UNCHANGED <<decided, outcome, route, route_reason>>
    PROVE  LifeOrStutter
<1>1. CASE UNCHANGED <<status, fail_reason>>
  BY <1>1 DEF LifeOrStutter, Life!vars
<1>2. CASE fail_stale_processing
  <2>1. /\ StaleProcessing \in SUBSET Notifications
        /\ \A n \in StaleProcessing : status[n] = "PROCESSING"
    BY DEF StaleProcessing, PlatformInv, IInv, TypeOK
  <2>2. /\ status' = [n \in Notifications |-> IF n \in StaleProcessing THEN "FAILED" ELSE status[n]]
        /\ fail_reason' = [n \in Notifications |->
                             IF n \in StaleProcessing THEN "processing_timeout" ELSE fail_reason[n]]
    BY <1>2 DEF fail_stale_processing, PROCESSING_TIMEOUT
  <2> HIDE DEF StaleProcessing
  <2>3. Life!TimeOut(StaleProcessing)
    BY <2>1, <2>2 DEF Life!TimeOut
  <2> QED
    BY <2>1, <2>3 DEF LifeOrStutter, Life!Next
<1>3. ASSUME NEW n \in Notifications, create(n) PROVE LifeOrStutter
  <2>1. Life!Create(n)
    BY <1>3 DEF create, Absent, Life!Create
  <2> QED
    BY <2>1 DEF LifeOrStutter, Life!Next
<1> QED
  BY <1>1, <1>2, <1>3, CommitShows, StepImplements, StepWrites DEF PlatformInv

LEMMA DecisionLives ==
    ASSUME PlatformInv, NEW n \in Notifications, NEW type \in RoutingEvents, Decide(n, type)
    PROVE  LifeOrStutter
<1>1. /\ decided[n] = Life!Undecided /\ status[n] # "absent"
      /\ decided' = [decided EXCEPT ![n] = type]
      /\ UNCHANGED <<outcome, status, fail_reason>>
      /\ route' = [route EXCEPT ![n] = IF type = "NotificationRouted" THEN "PROCESSING" ELSE "FAILED"]
      /\ route_reason' = [route_reason EXCEPT ![n] =
                            IF type = "NotificationRouted" THEN "none" ELSE "routing"]
  BY Decisions DEF NoEvent, Life!Undecided, Absent, vars, rows, Results!NoReason
<1>2. \/ Life!Decide(n, "NotificationRouted", "PROCESSING", "none")
      \/ Life!Decide(n, "RoutingFailed", "FAILED", "routing")
  BY <1>1 DEF RoutingEvents, Life!Decide, Life!ShowRoute
<1> QED
  BY <1>2 DEF LifeOrStutter, Life!Next

LEMMA DeliveryLives ==
    ASSUME PlatformInv, NEW n \in Notifications, NEW type \in DeliveryEvents, Deliver(n, type)
    PROVE  LifeOrStutter
<1>1. decided[n] = "NotificationRouted"
  BY PublishedIsAnnounced, Kinds DEF Deliver, RoutingEvents
<1>2. /\ outcome[n] = Life!Undecided /\ outcome' = [outcome EXCEPT ![n] = type]
      /\ UNCHANGED <<decided, status, fail_reason, route, route_reason>>
  BY DEF Deliver, Delivery!Settle, NoEvent, Life!Undecided, vars, rows, routeVars
<1>3. Life!Deliver(n, type)
  BY <1>1, <1>2 DEF Life!Deliver
<1> QED
  BY <1>3 DEF LifeOrStutter, Life!Next, DeliveryEvents

\* A commit of the results consumer closes the route, or finds it closed so.
LEMMA RouteLives ==
    ASSUME PlatformInv, NEW w \in Results!Tasks, route_at[w] = "update",
           Results!CommitUpdate(Results!Event(w)),
           UNCHANGED <<decided, outcome, status, fail_reason>>
    PROVE  LifeOrStutter
<1> DEFINE event == Results!Event(w)
           n == event.notification
<1>1. /\ event \in Results!Events /\ event.type \in Results!HANDLED /\ outcome[n] = event.type
      /\ route' = [route EXCEPT ![n] = Results!NewStatus(event)]
      /\ route_reason' = [route_reason EXCEPT ![n] = Results!FailReason(event)]
  BY RouteCommit
<1>2. n \in Notifications /\ event.type \in {"DeliveryCompleted", "DeliveryFailed"}
  BY <1>1 DEF Results!Events, Results!HANDLED
<1>3. /\ Life!EndsAs(n, Results!NewStatus(event), Results!FailReason(event))
      /\ Results!NewStatus(event) \in {"COMPLETED", "FAILED"}
      /\ Results!FailReason(event) \in {"none", "delivery", "routing"}
  BY <1>1, <1>2 DEF Life!EndsAs, Results!NewStatus, Results!FailReason, Results!NoReason
<1>4. Results!set_status(n, Results!NewStatus(event), {"PROCESSING"}, Results!FailReason(event))
  BY DEF Results!CommitUpdate
<1> HIDE DEF event
<1>5. CASE route[n] = "PROCESSING"
  <2>1. Life!CloseRoute(n, Results!NewStatus(event), Results!FailReason(event))
    BY <1>1, <1>3, <1>5 DEF Life!CloseRoute, Life!ShowRoute
  <2> QED
    BY <1>2, <1>3, <2>1 DEF LifeOrStutter, Life!Next
<1>6. CASE route[n] # "PROCESSING"
  <2>1. UNCHANGED <<route, route_reason>>
    BY <1>4, <1>6 DEF Results!set_status, Results!rows
  <2> QED
    BY <2>1 DEF LifeOrStutter, Life!vars
<1> QED
  BY <1>5, <1>6

LEMMA StepLives == ASSUME PlatformInv, [PlatformNext]_platformVars PROVE LifeOrStutter
<1>1. CASE UNCHANGED <<decisions, routeVars>>
  <2>1. UNCHANGED <<decided, outcome, route, route_reason>>
    BY <1>1 DEF decisions, routeVars
  <2> QED
    BY <2>1, NotificationLives
<1>2. ASSUME NEW entry \in Entries, Publish(entry) PROVE LifeOrStutter
  BY <1>2 DEF Publish, rows, decisions, LifeOrStutter, Life!vars
<1>3. ASSUME NEW w \in Results!Tasks, RouteStep(w) PROVE LifeOrStutter
  <2>1. UNCHANGED <<decided, outcome, status, fail_reason>>
    BY <1>3 DEF RouteStep, vars, rows, decisions
  <2>2. CASE UNCHANGED <<route, route_reason>>
    BY <2>1, <2>2 DEF LifeOrStutter, Life!vars
  <2>3. CASE Results!Update(w)
    BY <2>1, <2>2, <2>3, RouteLives DEF Results!Update, Results!rows
  <2> QED
    BY <1>3, <2>2, <2>3 DEF RouteStep, Results!TaskStep, Results!Check, Results!Ack, Results!Count,
       Results!GiveUp, Results!Read, Results!Claim, Results!rows
<1>4. CASE RoutingCrash
  BY <1>4 DEF RoutingCrash, Results!Crash, Results!rows, vars, rows, decisions, LifeOrStutter, Life!vars
<1>5. CASE UNCHANGED platformVars
  BY <1>1, <1>5 DEF platformVars
<1> QED
  BY <1>1, <1>2, <1>3, <1>4, <1>5, DecisionLives, DeliveryLives DEF PlatformNext, ServiceStep

\* The platform, seen through the rows of its services, is the life of its
\* notifications: nothing the streams, retries and crashes do shows there.
THEOREM PlatformIsLifecycle == PlatformSpec => ImplementsLifecycle
<1>1. PlatformInit => Life!Init
  BY DEF PlatformInit, Init, Routing!Init, Delivery!Init, Results!Init, Life!Init, NoEvent,
     Life!Undecided, Absent, NoReason, Results!NoRoute, Results!NoReason
<1>2. PlatformInv /\ [PlatformNext]_platformVars => [Life!Next]_(Life!vars)
  BY StepLives DEF LifeOrStutter
<1> QED
  BY <1>1, <1>2, PlatformInvariant, PTL DEF PlatformSpec, ImplementsLifecycle, Life!Spec
=============================================================================
