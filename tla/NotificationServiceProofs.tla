---------------------- MODULE NotificationServiceProofs ----------------------
(***************************************************************************)
(* Proofs about NotificationService, for every set of notifications, every *)
(* retry limit and every number of duplicates and faults.                  *)
(***************************************************************************)
EXTENDS NotificationService, TLAPS

\* The ledger statements keep the type of a row, a terminal row terminal, and
\* only mark_processed() makes it PROCESSED.
LEMMA LedgerRows ==
    ASSUME NEW row \in Row
    PROVE  /\ mark_processed(row) \in Row /\ is_processed(mark_processed(row))
           /\ mark_processed(row).status = "PROCESSED"
           /\ mark_failed_permanent(row) \in Row /\ is_processed(mark_failed_permanent(row))
           /\ mark_failed_permanent(row).status # "PROCESSED"
           /\ increment_fail_count(row) \in Row
           /\ is_processed(row) => increment_fail_count(row) = row
           /\ increment_fail_count(row).status = "PROCESSED" => row.status = "PROCESSED"
  BY DEF Row, ProcessedStatus, Terminal, mark_processed, mark_failed_permanent,
     increment_fail_count, is_processed

\* No ledger row but those of a commit becomes PROCESSED, and none reopens.
Bookkeeping ==
    /\ ledger' \in [Events -> Row]
    /\ \A event \in Events :
         /\ is_processed(ledger[event]) => is_processed(ledger'[event])
         /\ ledger'[event].status = "PROCESSED" => ledger[event].status = "PROCESSED"

LEMMA Rewrites ==
    ASSUME ledger \in [Events -> Row], NEW event \in Events,
           \/ ledger' = [ledger EXCEPT ![event] = increment_fail_count(@)]
           \/ ledger' = [ledger EXCEPT ![event] = mark_failed_permanent(@)]
           \/ ledger' = ledger
    PROVE  Bookkeeping
<1>1. ledger[event] \in Row
  OBVIOUS
<1> QED
  BY <1>1, LedgerRows DEF Bookkeeping

\* What a task holds.
LEMMA Held ==
    ASSUME IInv, NEW w \in Tasks, at[w] # "idle"
    PROVE  /\ cur[w] \in published /\ Event(w) \in Events
           /\ Event(w).notification \in Notifications /\ Event(w).type \in EventTypes
           /\ Event(w) = EventOf(Event(w).notification, Event(w).type)
           /\ Published(Event(w).notification, Event(w).type)
<1>1. cur[w] \in published /\ cur[w] \in Entries
  BY DEF IInv, TypeOK, HoldsPublished
<1>2. Event(w) \in Events
  BY <1>1 DEF Entries, Event
<1>3. Event(w) = EventOf(Event(w).notification, Event(w).type)
  BY <1>2 DEF Events, EventOf
<1> QED
  BY <1>1, <1>2, <1>3 DEF Events, Published, Event

----------------------------------------------------------------------------
(* What a step writes.                                                     *)

LEMMA StepWrites ==
    ASSUME IInv, [Next]_vars
    PROVE  /\ published \subseteq published'
           /\ \/ \E w \in Tasks : at[w] = "update" /\ CommitUpdate(Event(w)) /\ UNCHANGED published
              \/ fail_stale_processing
              \/ \E n \in Notifications : create(n)
              \/ UNCHANGED <<status, fail_reason>> /\ Bookkeeping
<1> DEFINE Commits == \E w \in Tasks : at[w] = "update" /\ CommitUpdate(Event(w)) /\ UNCHANGED published
           Nothing == UNCHANGED <<status, fail_reason>> /\ Bookkeeping
<1> USE DEF rows, streams, tasks
<1>1. ledger \in [Events -> Row] /\ "recoverer" \in Tasks
  BY DEF IInv, TypeOK, Tasks
<1>2. ledger' = ledger => Bookkeeping
  BY <1>1 DEF Bookkeeping
<1>3. ASSUME NEW w \in Tasks, TaskStep(w)
      PROVE  (UNCHANGED published /\ (Commits \/ Nothing)) \/ \E e \in unread : Read(w, e)
  <2>1. CASE Update(w)
    BY <1>2, <1>3, <2>1 DEF Update
  <2>2. CASE w = "recoverer" /\ Count
    <3>1. Event(w) \in Events /\ UNCHANGED <<published, status, fail_reason>>
      BY <1>3, <2>2, Held DEF Count
    <3>2. \/ ledger' = [ledger EXCEPT ![Event(w)] = increment_fail_count(@)]
          \/ ledger' = ledger
      BY <2>2 DEF Count
    <3> QED
      BY <1>1, <3>1, <3>2, Rewrites
  <2>3. CASE w = "recoverer" /\ GiveUp
    <3>1. Event(w) \in Events /\ UNCHANGED <<published, status, fail_reason>>
      BY <1>3, <2>3, Held DEF GiveUp
    <3>2. \/ ledger' = [ledger EXCEPT ![Event(w)] = mark_failed_permanent(@)]
          \/ ledger' = ledger
      BY <2>3 DEF GiveUp
    <3> QED
      BY <1>1, <3>1, <3>2, Rewrites
  <2> QED
    BY <1>2, <1>3, <2>1, <2>2, <2>3 DEF TaskStep, Check, Ack, Claim
<1>4. ASSUME NEW w \in Tasks, NEW e \in unread, Read(w, e) PROVE UNCHANGED published /\ Nothing
  BY <1>2, <1>4 DEF Read
<1>5. ASSUME NEW e \in Entries, XAdd(e) PROVE published \subseteq published' /\ Nothing
  BY <1>2, <1>5 DEF XAdd
<1>6. ASSUME NEW n \in Notifications, Elapse(n) PROVE UNCHANGED published /\ Nothing
  BY <1>2, <1>6 DEF Elapse
<1>7. fail_stale_processing => UNCHANGED published
  BY DEF fail_stale_processing
<1>8. ASSUME NEW n \in Notifications, create(n) PROVE UNCHANGED published
  BY <1>8 DEF create
<1>9. Crash \/ UNCHANGED vars => UNCHANGED published /\ Nothing
  BY <1>2 DEF Crash, vars
<1> QED
  BY <1>3, <1>4, <1>5, <1>6, <1>7, <1>8, <1>9 DEF Next

\* The effect of a commit: the ledger row, and the notification if the guard
\* let it through.
LEMMA CommitWrites ==
    ASSUME IInv, NEW event \in Events, CommitUpdate(event)
    PROVE  /\ event.notification \in Notifications /\ event.type \in EventTypes
           /\ ledger' \in [Events -> Row]
           /\ ledger'[event].status = "PROCESSED"
           /\ \A e \in Events : is_processed(ledger[e]) => is_processed(ledger'[e])
           /\ \A e \in Events : e # event => ledger'[e] = ledger[e]
           /\ \A n \in Notifications :
                n # event.notification => UNCHANGED <<status[n], fail_reason[n]>>
           /\ \/ /\ status[event.notification] \in AllowedFrom(event)
                 /\ status'[event.notification] = NewStatus(event)
                 /\ fail_reason'[event.notification] = FailReason(event)
              \/ /\ status[event.notification] \notin AllowedFrom(event)
                 /\ UNCHANGED <<status, fail_reason>>
<1>1. event.notification \in Notifications /\ event.type \in EventTypes
  BY DEF Events
<1>2. /\ ledger \in [Events -> Row] /\ ledger[event] \in Row
      /\ ledger' = [ledger EXCEPT ![event] = mark_processed(ledger[event])]
      /\ status \in [Notifications -> NotificationStatus \cup {Absent}]
      /\ fail_reason \in [Notifications -> Reasons]
  BY DEF IInv, TypeOK, CommitUpdate
<1>3. advance_status(event.notification, NewStatus(event), AllowedFrom(event), FailReason(event))
  BY DEF CommitUpdate
<1>4. /\ ledger' \in [Events -> Row]
      /\ ledger'[event].status = "PROCESSED"
      /\ \A e \in Events : is_processed(ledger[e]) => is_processed(ledger'[e])
      /\ \A e \in Events : e # event => ledger'[e] = ledger[e]
  BY <1>2, LedgerRows
<1> HIDE DEF NewStatus, AllowedFrom, FailReason
<1> QED
  BY <1>1, <1>2, <1>3, <1>4 DEF advance_status, rows

LEMMA NewStatusTyped ==
    ASSUME NEW event \in Events
    PROVE  /\ event.type = "NotificationRouted" =>
                NewStatus(event) = "PROCESSING" /\ AllowedFrom(event) = {"CREATED"}
           /\ event.type \in ResultTypes =>
                NewStatus(event) \in {"COMPLETED", "FAILED"} /\ AllowedFrom(event) = NON_TERMINAL
           /\ FailReason(event) \in Reasons
           /\ event.type = "NotificationRouted" \/ event.type \in ResultTypes
  BY DEF Events, EventTypes, ResultTypes, NewStatus, AllowedFrom, FailReason, Reasons, NoReason

----------------------------------------------------------------------------
(* Types, and what tasks hold.                                             *)

\* Moving a task keeps types; it comes to hold an entry only by taking one.
LEMMA Moves ==
    ASSUME IInv, NEW w \in Tasks,
           \/ at[w] # "idle" /\ \E place \in Places : Goto(w, place)
           \/ Done(w)
    PROVE  /\ at' \in [Tasks -> Places] /\ cur' \in [Tasks -> Entries \cup {NoEntry}]
           /\ \A v \in Tasks : at'[v] # "idle" => at[v] # "idle" /\ cur'[v] = cur[v]
  BY DEF Goto, Done, Places, IInv, TypeOK

LEMMA TaskMoves ==
    ASSUME IInv, NEW w \in Tasks, TaskStep(w)
    PROVE  /\ at' \in [Tasks -> Places] /\ cur' \in [Tasks -> Entries \cup {NoEntry}]
           /\ \A v \in Tasks : at'[v] # "idle" => cur'[v] \in published
<1>1. /\ at \in [Tasks -> Places] /\ cur \in [Tasks -> Entries \cup {NoEntry}]
      /\ published \subseteq Entries /\ unread \subseteq published /\ pending \subseteq published
      /\ "recoverer" \in Tasks
      /\ \A v \in Tasks : at[v] # "idle" => cur[v] \in published
  BY DEF IInv, TypeOK, HoldsPublished, Tasks
<1>2. ASSUME NEW e \in unread, Read(w, e)
      PROVE  /\ at' \in [Tasks -> Places] /\ cur' \in [Tasks -> Entries \cup {NoEntry}]
             /\ \A v \in Tasks : at'[v] # "idle" => cur'[v] \in published
  <2>1. CASE UNCHANGED tasks
    BY <1>1, <2>1 DEF tasks
  <2>2. CASE /\ at' = [at EXCEPT ![w] = "handle"]
             /\ cur' = [cur EXCEPT ![w] = e]
    BY <1>1, <2>2 DEF Places
  <2> QED
    BY <1>2, <2>1, <2>2 DEF Read
<1>3. ASSUME NEW e \in pending, Claim(e)
      PROVE  /\ at' \in [Tasks -> Places] /\ cur' \in [Tasks -> Entries \cup {NoEntry}]
             /\ \A v \in Tasks : at'[v] # "idle" => cur'[v] \in published
  BY <1>1, <1>3 DEF Claim, Places
<1>4. ASSUME \/ at[w] # "idle" /\ \E place \in Places : Goto(w, place)
             \/ Done(w)
      PROVE  /\ at' \in [Tasks -> Places] /\ cur' \in [Tasks -> Entries \cup {NoEntry}]
             /\ \A v \in Tasks : at'[v] # "idle" => cur'[v] \in published
  BY <1>1, <1>4, Moves
<1>5. Check(w) \/ Update(w) \/ Ack(w) =>
        \/ at[w] # "idle" /\ \E place \in Places : Goto(w, place)
        \/ Done(w)
  BY DEF Check, Update, Ack, Raise, Places
<1>6. w = "recoverer" /\ (Count \/ GiveUp) =>
        \/ at[w] # "idle" /\ \E place \in Places : Goto(w, place)
        \/ Done(w)
  BY DEF Count, GiveUp, Places
<1> QED
  BY <1>2, <1>3, <1>4, <1>5, <1>6 DEF TaskStep

LEMMA HeldStep ==
    ASSUME IInv, [Next]_vars
    PROVE  /\ at' \in [Tasks -> Places] /\ cur' \in [Tasks -> Entries \cup {NoEntry}]
           /\ HoldsPublished'
<1>1. published \subseteq published' /\ HoldsPublished
  BY StepWrites DEF IInv
<1>2. ASSUME NEW w \in Tasks, TaskStep(w)
      PROVE  /\ at' \in [Tasks -> Places] /\ cur' \in [Tasks -> Entries \cup {NoEntry}]
             /\ HoldsPublished'
  BY <1>1, <1>2, TaskMoves DEF HoldsPublished
<1>3. CASE Crash
  BY <1>3 DEF Crash, Places, HoldsPublished
<1>4. CASE UNCHANGED tasks
  BY <1>1, <1>4 DEF tasks, IInv, TypeOK, HoldsPublished
<1> QED
  BY <1>2, <1>3, <1>4 DEF Next, fail_stale_processing, create, Elapse, XAdd, vars

LEMMA EntriesStep ==
    ASSUME IInv, [Next]_vars
    PROVE  published' \subseteq Entries /\ unread' \subseteq published' /\ pending' \subseteq published' \ unread'
<1> USE DEF streams, IInv, TypeOK
<1>1. ASSUME NEW w \in Tasks, TaskStep(w)
      PROVE  published' \subseteq Entries /\ unread' \subseteq published' /\ pending' \subseteq published' \ unread'
  BY <1>1 DEF TaskStep, Read, Check, Update, Ack, Count, GiveUp, Claim
<1>2. ASSUME NEW e \in Entries, XAdd(e)
      PROVE  published' \subseteq Entries /\ unread' \subseteq published' /\ pending' \subseteq published' \ unread'
  BY <1>2 DEF XAdd
<1>3. CASE UNCHANGED streams
  BY <1>3
<1> QED
  BY <1>1, <1>2, <1>3 DEF Next, fail_stale_processing, create, Elapse, Crash, vars

LEMMA FaultsStep == ASSUME IInv, [Next]_vars PROVE faults' \in 0 .. MaxFaults
<1>1. faults \in 0 .. MaxFaults /\ MaxFaults \in Nat
  BY NotificationAssumption DEF IInv, TypeOK
<1>2. Fault \/ NoFault => faults' \in 0 .. MaxFaults
  BY <1>1 DEF Fault, NoFault
<1>3. UNCHANGED faults => faults' \in 0 .. MaxFaults
  BY <1>1
<1> QED
  BY <1>2, <1>3 DEF Next, TaskStep, Read, Check, Update, Ack, Count, GiveUp, Claim, XAdd,
     fail_stale_processing, create, Elapse, Crash, vars

LEMMA StaleStep == ASSUME IInv, [Next]_vars PROVE stale' \subseteq Notifications
<1>1. stale \subseteq Notifications
  BY DEF IInv, TypeOK
<1>2. \A event : CommitUpdate(event) => stale' \subseteq stale
  BY DEF CommitUpdate, advance_status, rows
<1> QED
  BY <1>1, <1>2 DEF Next, TaskStep, Read, Check, Update, Ack, Count, GiveUp, Claim, XAdd,
     fail_stale_processing, create, Elapse, Crash, rows, vars

LEMMA RowsStep ==
    ASSUME IInv, [Next]_vars
    PROVE  /\ status' \in [Notifications -> NotificationStatus \cup {Absent}]
           /\ fail_reason' \in [Notifications -> Reasons]
           /\ ledger' \in [Events -> Row]
<1>1. /\ status \in [Notifications -> NotificationStatus \cup {Absent}]
      /\ fail_reason \in [Notifications -> Reasons] /\ ledger \in [Events -> Row]
  BY DEF IInv, TypeOK
<1>2. ASSUME NEW event \in Events, CommitUpdate(event)
      PROVE  /\ status' \in [Notifications -> NotificationStatus \cup {Absent}]
             /\ fail_reason' \in [Notifications -> Reasons]
  <2>1. NewStatus(event) \in NotificationStatus /\ FailReason(event) \in Reasons
    BY NewStatusTyped DEF NotificationStatus
  <2> HIDE DEF NewStatus, FailReason, AllowedFrom
  <2> QED
    BY <1>1, <1>2, <2>1 DEF CommitUpdate, advance_status, rows
<1>3. ASSUME NEW w \in Tasks, at[w] = "update", CommitUpdate(Event(w))
      PROVE  /\ status' \in [Notifications -> NotificationStatus \cup {Absent}]
             /\ fail_reason' \in [Notifications -> Reasons]
             /\ ledger' \in [Events -> Row]
  BY <1>2, <1>3, Held, CommitWrites
<1>4. CASE fail_stale_processing
  BY <1>1, <1>4 DEF fail_stale_processing, NotificationStatus, Reasons
<1>5. ASSUME NEW n \in Notifications, create(n)
      PROVE  /\ status' \in [Notifications -> NotificationStatus \cup {Absent}]
             /\ fail_reason' \in [Notifications -> Reasons]
             /\ ledger' \in [Events -> Row]
  BY <1>1, <1>5 DEF create, NotificationStatus
<1>6. CASE UNCHANGED <<status, fail_reason>> /\ Bookkeeping
  BY <1>1, <1>6 DEF Bookkeeping
<1> QED
  BY <1>3, <1>4, <1>5, <1>6, StepWrites

LEMMA TypeStep == ASSUME IInv, [Next]_vars PROVE TypeOK'
  BY HeldStep, EntriesStep, FaultsStep, StaleStep, RowsStep DEF TypeOK

----------------------------------------------------------------------------
(* The status.                                                             *)

\* One row's part of Monotonic.
MovesOn(n) == \/ UNCHANGED <<status[n], fail_reason[n]>>
              \/ <<status[n], status'[n]>> \in LegalTransitions

LEMMA MonotonicStep == ASSUME IInv, [Next]_vars PROVE \A n \in Notifications : MovesOn(n)
<1>1. /\ status \in [Notifications -> NotificationStatus \cup {Absent}]
      /\ fail_reason \in [Notifications -> Reasons]
  BY DEF IInv, TypeOK
<1>2. ASSUME NEW w \in Tasks, at[w] = "update", CommitUpdate(Event(w))
      PROVE  \A n \in Notifications : MovesOn(n)
  <2> DEFINE event == Event(w)
  <2>1. event \in Events
    BY <1>2, Held
  <2>2. status[event.notification] \in AllowedFrom(event) =>
          <<status[event.notification], NewStatus(event)>> \in LegalTransitions
    BY <2>1, NewStatusTyped DEF LegalTransitions, NON_TERMINAL
  <2> HIDE DEF event
  <2> QED
    BY <1>2, <2>1, <2>2, CommitWrites DEF MovesOn, event
<1>3. CASE fail_stale_processing
  BY <1>1, <1>3 DEF fail_stale_processing, StaleProcessing, MovesOn, LegalTransitions
<1>4. ASSUME NEW n \in Notifications, create(n) PROVE \A k \in Notifications : MovesOn(k)
  BY <1>1, <1>4 DEF create, MovesOn, LegalTransitions
<1>5. CASE UNCHANGED <<status, fail_reason>>
  BY <1>5 DEF MovesOn
<1> QED
  BY <1>2, <1>3, <1>4, <1>5, StepWrites

\* A row stays once it is there, and a closed one stays as it is.
LEMMA StatusStays ==
    ASSUME IInv, [Next]_vars, NEW n \in Notifications
    PROVE  /\ status[n] # Absent => status'[n] # Absent
           /\ Closed(n) => UNCHANGED <<status[n], fail_reason[n]>>
  BY MonotonicStep DEF MovesOn, LegalTransitions, Absent, Closed

LEMMA ConsistentStep == ASSUME IInv, [Next]_vars PROVE ConsistentEvents'
<1> USE DEF ConsistentEvents
<1>1. ConsistentEvents
  BY DEF IInv
<1>2. \A n \in Notifications : status[n] # Absent => status'[n] # Absent
  BY StatusStays
<1>3. CASE UNCHANGED published
  BY <1>1, <1>2, <1>3 DEF Published
<1>4. ASSUME NEW entry \in Entries, XAdd(entry) PROVE ConsistentEvents'
  <2> DEFINE n0 == entry.event.notification
             t0 == entry.event.type
  <2>1. n0 \in Notifications /\ t0 \in EventTypes /\ entry.event = EventOf(n0, t0)
    BY DEF Entries, Events, EventOf
  <2>2. \A n, type : EventOf(n, type) = EventOf(n0, t0) => n = n0 /\ type = t0
    BY DEF EventOf
  <2>3. \A n \in Notifications, type \in EventTypes :
          Published(n, type)' <=> Published(n, type) \/ (n = n0 /\ type = t0)
    BY <1>4, <2>1, <2>2 DEF XAdd, Published
  <2>4. MayPublish(n0, t0) /\ status[n0] # Absent
    BY <1>4 DEF XAdd
  <2> HIDE DEF n0, t0
  <2>5. ASSUME NEW n \in Notifications, n # n0
        PROVE  \A type \in EventTypes : Published(n, type)' <=> Published(n, type)
    BY <2>3, <2>5
  <2>6. \A type \in EventTypes : Published(n0, type)' <=> Published(n0, type) \/ type = t0
    BY <2>1, <2>3
  <2>7. {"NotificationRouted", "RoutingFailed", "DeliveryCompleted", "DeliveryFailed"} = EventTypes
    BY DEF EventTypes, ResultTypes
  <2>8. /\ t0 = "NotificationRouted" => ~Published(n0, "RoutingFailed")
        /\ t0 = "RoutingFailed" => ~Published(n0, "NotificationRouted")
        /\ t0 = "DeliveryCompleted" =>
             Published(n0, "NotificationRouted") /\ ~Published(n0, "DeliveryFailed")
        /\ t0 = "DeliveryFailed" =>
             Published(n0, "NotificationRouted") /\ ~Published(n0, "DeliveryCompleted")
    BY <2>4 DEF MayPublish
  <2> QED
    BY <1>1, <1>2, <2>1, <2>4, <2>5, <2>6, <2>7, <2>8
<1>5. CASE published' = published \/ \E entry \in Entries : XAdd(entry)
  BY <1>3, <1>4, <1>5
<1> QED
  BY <1>5 DEF Next, TaskStep, Read, Check, Update, Ack, Count, GiveUp, Claim,
     fail_stale_processing, create, Elapse, Crash, streams, vars

\* The two results of one notification that are published are the same.
LEMMA OneResult ==
    ASSUME IInv, NEW n \in Notifications, NEW t1 \in ResultTypes, NEW t2 \in ResultTypes,
           Published(n, t1), Published(n, t2)
    PROVE  t1 = t2
  BY DEF IInv, ConsistentEvents, ResultTypes

LEMMA EventsNamed ==
    ASSUME NEW n \in Notifications, NEW type \in EventTypes
    PROVE  /\ EventOf(n, type) \in Events
           /\ EventOf(n, type).notification = n /\ EventOf(n, type).type = type
  BY DEF EventOf, Events

LEMMA ProcessingStep == ASSUME IInv, [Next]_vars PROVE ProcessingWasRouted'
<1> DEFINE routed(n) == EventOf(n, "NotificationRouted")
<1>1. \A n \in Notifications : /\ routed(n) \in Events
                               /\ status[n] = "PROCESSING" => is_processed(ledger[routed(n)])
  BY EventsNamed DEF IInv, ProcessingWasRouted, EventTypes
<1>2. ASSUME NEW w \in Tasks, at[w] = "update", CommitUpdate(Event(w)) PROVE ProcessingWasRouted'
  <2> DEFINE event == Event(w)
  <2>1. event \in Events /\ event = EventOf(event.notification, event.type)
    BY <1>2, Held
  <2>2. event.type # "NotificationRouted" => NewStatus(event) # "PROCESSING"
    BY <2>1, NewStatusTyped
  <2>3. event.type = "NotificationRouted" => event = routed(event.notification)
    BY <2>1
  <2>4. is_processed(ledger'[event])
    BY <1>2, <2>1, CommitWrites DEF is_processed, Terminal
  <2> HIDE DEF event
  <2> QED
    BY <1>1, <1>2, <2>1, <2>2, <2>3, <2>4, CommitWrites DEF ProcessingWasRouted, event
<1>3. CASE fail_stale_processing
  BY <1>1, <1>3 DEF fail_stale_processing, ProcessingWasRouted
<1>4. ASSUME NEW n \in Notifications, create(n) PROVE ProcessingWasRouted'
  BY <1>1, <1>4 DEF create, ProcessingWasRouted, IInv, TypeOK
<1>5. CASE UNCHANGED <<status, fail_reason>> /\ Bookkeeping
  BY <1>1, <1>5 DEF ProcessingWasRouted, Bookkeeping
<1> QED
  BY <1>2, <1>3, <1>4, <1>5, StepWrites

----------------------------------------------------------------------------
(* Why a notification is closed, and that its result is what closed it.    *)

\* One row's part of ClosedForCause.
Cause(n) ==
    Closed(n) =>
        \/ /\ status[n] = "FAILED" /\ fail_reason[n] = PROCESSING_TIMEOUT
           /\ is_processed(ledger[EventOf(n, "NotificationRouted")])
        \/ \E type \in ResultTypes :
             /\ Published(n, type)
             /\ status[n] = NewStatus(EventOf(n, type))
             /\ fail_reason[n] = FailReason(EventOf(n, type))

\* A cause stays a cause.
LEMMA CauseStays ==
    ASSUME NEW n \in Notifications, Cause(n), UNCHANGED <<status[n], fail_reason[n]>>,
           published \subseteq published',
           is_processed(ledger[EventOf(n, "NotificationRouted")]) =>
               is_processed(ledger'[EventOf(n, "NotificationRouted")])
    PROVE  Cause(n)'
<1>1. \A type : Published(n, type) => Published(n, type)'
  BY DEF Published
<1>2. Closed(n)' <=> Closed(n)
  BY DEF Closed
<1> QED
  BY <1>1, <1>2 DEF Cause, NewStatus, FailReason, EventOf

LEMMA CauseOfCommit ==
    ASSUME IInv, NEW event \in Events, CommitUpdate(event), UNCHANGED published,
           Published(event.notification, event.type)
    PROVE  \A n \in Notifications : Cause(n)'
<1> DEFINE n0 == event.notification
<1>1. \A n \in Notifications : Cause(n) /\ EventOf(n, "NotificationRouted") \in Events
  BY EventsNamed DEF IInv, ClosedForCause, Cause, EventTypes
<1>2. \A n \in Notifications : UNCHANGED <<status[n], fail_reason[n]>> => Cause(n)'
  BY <1>1, CommitWrites, CauseStays
<1>3. n0 \in Notifications /\ event = EventOf(n0, event.type) /\ Published(n0, event.type)'
  BY DEF Events, EventOf, Published
<1>4. CASE status[n0] \notin AllowedFrom(event)
  BY <1>2, <1>4, CommitWrites
<1>5. CASE status[n0] \in AllowedFrom(event)
  <2>1. /\ \A n \in Notifications : n # n0 => UNCHANGED <<status[n], fail_reason[n]>>
        /\ status'[n0] = NewStatus(event) /\ fail_reason'[n0] = FailReason(event)
    BY <1>5, CommitWrites
  <2>2. CASE event.type \in ResultTypes
    BY <1>2, <1>3, <2>1, <2>2 DEF Cause, NewStatus, FailReason, EventOf
  <2>3. CASE event.type = "NotificationRouted"
    BY <1>2, <2>1, <2>3, NewStatusTyped DEF Cause, Closed
  <2> QED
    BY <2>2, <2>3, NewStatusTyped
<1> QED
  BY <1>4, <1>5

LEMMA CauseStep == ASSUME IInv, [Next]_vars PROVE ClosedForCause'
<1>1. /\ published \subseteq published'
      /\ \A n \in Notifications : Cause(n) /\ EventOf(n, "NotificationRouted") \in Events
  BY StepWrites, EventsNamed DEF IInv, ClosedForCause, Cause, EventTypes
<1>2. ASSUME NEW w \in Tasks, at[w] = "update", CommitUpdate(Event(w)), UNCHANGED published
      PROVE  \A n \in Notifications : Cause(n)'
  BY <1>2, Held, CauseOfCommit
<1>3. ASSUME fail_stale_processing, NEW n \in Notifications PROVE Cause(n)'
  <2>1. ledger' = ledger
    BY <1>3 DEF fail_stale_processing
  <2>2. CASE n \in StaleProcessing
    <3>1. status'[n] = "FAILED" /\ fail_reason'[n] = PROCESSING_TIMEOUT
      BY <1>3, <2>2 DEF fail_stale_processing
    <3>2. is_processed(ledger'[EventOf(n, "NotificationRouted")])
      BY <2>1, <2>2 DEF StaleProcessing, IInv, ProcessingWasRouted
    <3> QED
      BY <3>1, <3>2 DEF Cause, EventOf
  <2>3. CASE n \notin StaleProcessing
    <3>1. UNCHANGED <<status[n], fail_reason[n]>>
      BY <1>3, <2>3 DEF fail_stale_processing, IInv, TypeOK
    <3> QED
      BY <1>1, <2>1, <3>1, CauseStays
  <2> QED
    BY <2>2, <2>3
<1>4. ASSUME NEW k \in Notifications, create(k), NEW n \in Notifications PROVE Cause(n)'
  <2>1. CASE n = k
    BY <1>4, <2>1 DEF create, Cause, Closed, IInv, TypeOK
  <2>2. CASE n # k
    <3>1. UNCHANGED <<status[n], fail_reason[n], ledger>>
      BY <1>4, <2>2 DEF create, IInv, TypeOK
    <3> QED
      BY <1>1, <3>1, CauseStays
  <2> QED
    BY <2>1, <2>2
<1>5. ASSUME UNCHANGED <<status, fail_reason>>, Bookkeeping PROVE \A n \in Notifications : Cause(n)'
  BY <1>1, <1>5, CauseStays DEF Bookkeeping
<1>6. \A n \in Notifications : Cause(n)'
  BY <1>2, <1>3, <1>4, <1>5, StepWrites
<1> QED
  BY <1>6 DEF ClosedForCause, Cause

\* A notification shows one of its results, or that it timed out.
Shows(event) ==
    LET n == event.notification IN
    \/ status[n] = NewStatus(event) /\ fail_reason[n] = FailReason(event)
    \/ status[n] = "FAILED" /\ fail_reason[n] = PROCESSING_TIMEOUT

LEMMA ResultStep == ASSUME IInv, [Next]_vars PROVE ResultApplied'
<1> SUFFICES ASSUME NEW event \in Events, ledger'[event].status = "PROCESSED", event.type \in ResultTypes
             PROVE  Shows(event)'
  BY DEF ResultApplied, Shows
<1> DEFINE n == event.notification
<1>1. n \in Notifications /\ NewStatus(event) \in {"COMPLETED", "FAILED"}
  BY NewStatusTyped DEF Events
<1>2. CASE ledger[event].status = "PROCESSED"
  <2>1. Shows(event)
    BY <1>2 DEF IInv, ResultApplied, Shows
  <2>2. Closed(n)
    BY <1>1, <2>1 DEF Shows, Closed
  <2>3. UNCHANGED <<status[n], fail_reason[n]>>
    BY <1>1, <2>2, StatusStays
  <2> QED
    BY <2>1, <2>3 DEF Shows, NewStatus, FailReason
<1>3. CASE ledger[event].status # "PROCESSED"
  <2>1. ~Bookkeeping /\ ledger' # ledger
    BY <1>3 DEF Bookkeeping
  <2>2. PICK w \in Tasks : at[w] = "update" /\ CommitUpdate(Event(w))
    BY <2>1, StepWrites DEF fail_stale_processing, create
  <2>3. Event(w) \in Events /\ Published(Event(w).notification, Event(w).type)
    BY <2>2, Held
  <2>4. Event(w) = event
    BY <1>3, <2>2, <2>3, CommitWrites
  <2>5. CASE status[n] \in AllowedFrom(event)
    <3>1. status'[n] = NewStatus(event) /\ fail_reason'[n] = FailReason(event)
      BY <2>2, <2>3, <2>4, <2>5, CommitWrites
    <3> QED
      BY <3>1 DEF Shows, NewStatus, FailReason
  <2>6. CASE status[n] \notin AllowedFrom(event)
    <3>1. UNCHANGED <<status, fail_reason>>
      BY <2>2, <2>3, <2>4, <2>6, CommitWrites
    <3>2. status[n] # Absent /\ Published(n, event.type)
      BY <1>1, <2>3, <2>4 DEF IInv, ConsistentEvents, EventTypes
    <3>3. Closed(n)
      BY <1>1, <2>6, <3>2, NewStatusTyped DEF Closed, NON_TERMINAL, NotificationStatus, IInv, TypeOK
    <3>4. (status[n] = "FAILED" /\ fail_reason[n] = PROCESSING_TIMEOUT) \/ \E type \in ResultTypes :
             /\ Published(n, type)
             /\ status[n] = NewStatus(EventOf(n, type))
             /\ fail_reason[n] = FailReason(EventOf(n, type))
      BY <1>1, <3>3 DEF IInv, ClosedForCause
    <3>5. CASE status[n] = "FAILED" /\ fail_reason[n] = PROCESSING_TIMEOUT
      BY <3>1, <3>5 DEF Shows
    <3>6. ASSUME NEW type \in ResultTypes, Published(n, type),
                 status[n] = NewStatus(EventOf(n, type)),
                 fail_reason[n] = FailReason(EventOf(n, type))
          PROVE  Shows(event)'
      <4>1. EventOf(n, type) = event
        BY <1>1, <3>2, <3>6, OneResult DEF EventOf, Events
      <4> QED
        BY <3>1, <3>6, <4>1 DEF Shows, NewStatus, FailReason
    <3> QED
      BY <3>4, <3>5, <3>6
  <2> QED
    BY <2>5, <2>6
<1> QED
  BY <1>2, <1>3

----------------------------------------------------------------------------
(* The consumer groups.                                                    *)

\* The counts of the ledger statements, and which of them gives up.
LEMMA LedgerCounts ==
    ASSUME NEW row \in Row
    PROVE  /\ row.fail_count \in Nat
           /\ is_processed(row) => increment_fail_count(row) = row
           /\ mark_processed(row).fail_count = row.fail_count
           /\ mark_processed(row).status # "FAILED_PERMANENT"
           /\ mark_failed_permanent(row).fail_count = row.fail_count
           /\ increment_fail_count(row).fail_count \in Nat
           /\ increment_fail_count(row).fail_count >= row.fail_count
           /\ increment_fail_count(row).status = "FAILED_PERMANENT" => increment_fail_count(row) = row
  BY DEF Row, ProcessedStatus, Terminal, mark_processed, mark_failed_permanent,
     increment_fail_count, is_processed

\* A step changes the ledger by one statement, on the event of one task.
LEMMA LedgerWrites ==
    ASSUME IInv, [Next]_vars
    PROVE  \/ \E w \in Tasks :
                /\ at[w] = "update"
                /\ ledger' = [ledger EXCEPT ![Event(w)] = mark_processed(@)]
           \/ /\ at["recoverer"] = "count"
              /\ ledger' = [ledger EXCEPT ![Event("recoverer")] = increment_fail_count(@)]
           \/ /\ at["recoverer"] = "giveup"
              /\ ledger' = [ledger EXCEPT ![Event("recoverer")] = mark_failed_permanent(@)]
           \/ ledger' = ledger
<1> DEFINE Writes ==
             \/ \E w \in Tasks :
                  /\ at[w] = "update"
                  /\ ledger' = [ledger EXCEPT ![Event(w)] = mark_processed(@)]
             \/ /\ at["recoverer"] = "count"
                /\ ledger' = [ledger EXCEPT ![Event("recoverer")] = increment_fail_count(@)]
             \/ /\ at["recoverer"] = "giveup"
                /\ ledger' = [ledger EXCEPT ![Event("recoverer")] = mark_failed_permanent(@)]
             \/ ledger' = ledger
<1>1. ASSUME NEW w \in Tasks, TaskStep(w) PROVE Writes
  <2>1. CASE Update(w)
    BY <2>1 DEF Update, CommitUpdate
  <2>2. CASE Count
    BY <2>2 DEF Count
  <2>3. CASE GiveUp
    BY <2>3 DEF GiveUp
  <2>4. CASE Check(w) \/ Ack(w) \/ (\E e \in unread : Read(w, e)) \/ (\E e \in pending : Claim(e))
    BY <2>4 DEF Check, Ack, Read, Claim
  <2> QED
    BY <1>1, <2>1, <2>2, <2>3, <2>4 DEF TaskStep
<1>2. ASSUME \/ fail_stale_processing \/ Crash \/ UNCHANGED vars
             \/ \E n \in Notifications : create(n) \/ Elapse(n)
             \/ \E e \in Entries : XAdd(e)
      PROVE  ledger' = ledger
  BY <1>2 DEF fail_stale_processing, Crash, vars, create, Elapse, XAdd
<1> QED
  BY <1>1, <1>2 DEF Next

\* A row only moves forward, and gives up at the recoverer's hands alone.
MovesRow(event) ==
    /\ is_processed(ledger[event]) => is_processed(ledger'[event])
    /\ ledger[event].fail_count \in Nat /\ ledger'[event].fail_count \in Nat
    /\ ledger'[event].fail_count >= ledger[event].fail_count
    /\ GivenUp(event)' => \/ GivenUp(event)
                          \/ at["recoverer"] = "giveup" /\ event = Event("recoverer")

LEMMA RowMoves == ASSUME IInv, [Next]_vars, NEW event \in Events PROVE MovesRow(event)
<1>1. ledger \in [Events -> Row] /\ ledger[event] \in Row /\ "recoverer" \in Tasks
  BY DEF IInv, TypeOK, Tasks
<1>2. ledger[event].fail_count \in Nat /\ ledger[event].fail_count >= ledger[event].fail_count
  BY <1>1, LedgerCounts
<1>3. CASE ledger' = ledger
  BY <1>2, <1>3 DEF MovesRow, GivenUp
<1>4. ASSUME NEW w \in Tasks, at[w] = "update",
             ledger' = [ledger EXCEPT ![Event(w)] = mark_processed(@)]
      PROVE  MovesRow(event)
  <2>1. CASE event = Event(w)
    <3>1. ledger'[event] = mark_processed(ledger[event])
      BY <1>1, <1>4, <2>1
    <3> QED
      BY <1>1, <1>2, <3>1, LedgerRows, LedgerCounts DEF MovesRow, GivenUp
  <2>2. CASE event # Event(w)
    BY <1>1, <1>2, <1>4, <2>2 DEF MovesRow, GivenUp
  <2> QED
    BY <2>1, <2>2
<1>5. CASE ledger' = [ledger EXCEPT ![Event("recoverer")] = increment_fail_count(@)]
  <2>1. CASE event = Event("recoverer")
    <3>1. ledger'[event] = increment_fail_count(ledger[event])
      BY <1>1, <1>5, <2>1
    <3>2. is_processed(ledger[event]) => is_processed(ledger'[event])
      BY <1>1, <3>1, LedgerCounts
    <3> QED
      BY <1>1, <1>2, <3>1, <3>2, LedgerCounts DEF MovesRow, GivenUp
  <2>2. CASE event # Event("recoverer")
    BY <1>1, <1>2, <1>5, <2>2 DEF MovesRow, GivenUp
  <2> QED
    BY <2>1, <2>2
<1>6. CASE /\ at["recoverer"] = "giveup"
           /\ ledger' = [ledger EXCEPT ![Event("recoverer")] = mark_failed_permanent(@)]
  <2>1. CASE event = Event("recoverer")
    <3>1. ledger'[event] = mark_failed_permanent(ledger[event])
      BY <1>1, <1>6, <2>1
    <3> QED
      BY <1>1, <1>2, <1>6, <2>1, <3>1, LedgerRows, LedgerCounts DEF MovesRow
  <2>2. CASE event # Event("recoverer")
    BY <1>1, <1>2, <1>6, <2>2 DEF MovesRow, GivenUp
  <2> QED
    BY <2>1, <2>2
<1> QED
  BY <1>3, <1>4, <1>5, <1>6, LedgerWrites

\* Who comes to acknowledge has handled its event; the recoverer comes to give
\* up from a count that reached the limit.
Advances(v) ==
    /\ at'[v] = "ack" =>
         /\ cur'[v] = cur[v] /\ at[v] # "idle"
         /\ at[v] = "ack" \/ is_processed(ledger'[Event(v)])
    /\ at'[v] = "giveup" =>
         /\ cur'[v] = cur[v] /\ at[v] # "idle"
         /\ \/ at[v] = "giveup"
            \/ v = "recoverer" /\ ledger'[Event(v)].fail_count >= MaxRetries

LEMMA TaskAdvances ==
    ASSUME IInv, NEW w \in Tasks, TaskStep(w), NEW v \in Tasks
    PROVE  Advances(v)
<1>1. /\ at \in [Tasks -> Places] /\ cur \in [Tasks -> Entries \cup {NoEntry}]
      /\ ledger \in [Events -> Row] /\ "recoverer" \in Tasks
  BY DEF IInv, TypeOK, Tasks
<1>2. Done(w) => Advances(v)
  BY <1>1 DEF Done, Advances
<1>3. ASSUME NEW place, Goto(w, place), at[w] # "idle",
             place = "ack" => is_processed(ledger'[Event(w)]),
             place = "giveup" => w = "recoverer" /\ ledger'[Event(w)].fail_count >= MaxRetries
      PROVE  Advances(v)
  BY <1>1, <1>3 DEF Goto, Advances
<1>4. ASSUME NEW e \in unread, Read(w, e) PROVE Advances(v)
  BY <1>1, <1>4 DEF Read, tasks, Advances
<1>5. ASSUME NEW e \in pending, Claim(e) PROVE Advances(v)
  BY <1>1, <1>5 DEF Claim, Advances
<1>6. at[w] # "idle" /\ Raise(w) => Advances(v)
  BY <1>2, <1>3 DEF Raise
<1>7. CASE Check(w)
  <2>1. at[w] # "idle" /\ ledger' = ledger
    BY <1>7 DEF Check
  <2>2. \/ Raise(w)
        \/ is_processed(ledger[Event(w)]) /\ Goto(w, "ack")
        \/ Goto(w, "update")
    BY <1>7 DEF Check
  <2> QED
    BY <1>3, <1>6, <2>1, <2>2
<1>8. CASE Update(w)
  <2>1. at[w] # "idle"
    BY <1>8 DEF Update
  <2>2. Raise(w) \/ (CommitUpdate(Event(w)) /\ Goto(w, "ack"))
    BY <1>8 DEF Update
  <2>3. CommitUpdate(Event(w)) => is_processed(ledger'[Event(w)])
    BY <1>1, <2>1, Held, LedgerRows DEF CommitUpdate
  <2> QED
    BY <1>3, <1>6, <2>1, <2>2, <2>3
<1>9. CASE Ack(w)
  BY <1>2, <1>9 DEF Ack
<1>10. CASE w = "recoverer" /\ Count
  <2> DEFINE event == Event("recoverer")
  <2>1. at[w] # "idle" /\ w = "recoverer"
    BY <1>10 DEF Count
  <2>2. event \in Events /\ ledger[event] \in Row
    BY <1>1, <2>1, Held
  <2>3. \/ Done(w)
        \/ /\ ledger' = [ledger EXCEPT ![event] = increment_fail_count(@)]
           /\ \/ is_processed(ledger[event]) /\ Goto(w, "ack")
              \/ /\ increment_fail_count(ledger[event]).fail_count >= MaxRetries
                 /\ Goto(w, "giveup")
    BY <1>10 DEF Count, should_give_up
  <2>4. ledger' = [ledger EXCEPT ![event] = increment_fail_count(@)] =>
          ledger'[event] = increment_fail_count(ledger[event])
    BY <1>1, <2>2
  <2>5. is_processed(ledger[event]) => increment_fail_count(ledger[event]) = ledger[event]
    BY <2>2, LedgerCounts
  <2> QED
    BY <1>2, <1>3, <2>1, <2>3, <2>4, <2>5
<1>11. CASE w = "recoverer" /\ GiveUp
  <2> DEFINE event == Event("recoverer")
  <2>1. at[w] # "idle" /\ w = "recoverer"
    BY <1>11 DEF GiveUp
  <2>2. event \in Events
    BY <2>1, Held
  <2>3. \/ Done(w)
        \/ ledger' = [ledger EXCEPT ![event] = mark_failed_permanent(@)] /\ Goto(w, "ack")
    BY <1>11 DEF GiveUp
  <2>4. ledger' = [ledger EXCEPT ![event] = mark_failed_permanent(@)] => is_processed(ledger'[event])
    BY <1>1, <2>2, LedgerRows
  <2> QED
    BY <1>2, <1>3, <2>1, <2>3, <2>4
<1> QED
  BY <1>4, <1>5, <1>7, <1>8, <1>9, <1>10, <1>11 DEF TaskStep

LEMMA AdvanceStep == ASSUME IInv, [Next]_vars, NEW v \in Tasks PROVE Advances(v)
<1>1. at \in [Tasks -> Places] /\ "idle" # "ack" /\ "idle" # "giveup"
  BY DEF IInv, TypeOK
<1>2. CASE Crash
  BY <1>2 DEF Crash, Advances
<1>3. CASE UNCHANGED tasks
  BY <1>3 DEF tasks, Advances
<1> QED
  BY <1>2, <1>3, TaskAdvances DEF Next, fail_stale_processing, create, Elapse, XAdd, vars

\* An entry leaves its group by an acknowledgement.
LEMMA LeavesGroup ==
    ASSUME IInv, [Next]_vars, NEW entry \in published' \ (unread' \cup pending')
    PROVE  /\ entry \in published
           /\ \/ entry \notin unread \cup pending
              \/ \E w \in Tasks : at[w] = "ack" /\ cur[w] = entry
<1> DEFINE Left == /\ entry \in published
                   /\ \/ entry \notin unread \cup pending
                      \/ \E w \in Tasks : at[w] = "ack" /\ cur[w] = entry
<1>1. ASSUME NEW w \in Tasks, NEW e \in unread, Read(w, e) PROVE Left
  BY <1>1 DEF Read
<1>2. ASSUME NEW w \in Tasks, Ack(w) PROVE Left
  BY <1>2 DEF Ack
<1>3. ASSUME NEW e \in Entries, XAdd(e) PROVE Left
  BY <1>3 DEF XAdd
<1>4. CASE UNCHANGED streams
  BY <1>4 DEF streams
<1> QED
  BY <1>1, <1>2, <1>3, <1>4 DEF Next, TaskStep, Check, Update, Count, GiveUp, Claim,
     fail_stale_processing, create, Elapse, Crash, vars

LEMMA GroupStep == ASSUME IInv, GroupInv, [Next]_vars PROVE GroupInv'
<1>1. \A event \in Events : MovesRow(event)
  BY RowMoves
<1>2. \A w \in Tasks : at[w] # "idle" => Event(w) \in Events
  BY Held
<1>3. "recoverer" \in Tasks /\ MaxRetries \in Nat
  BY NotificationAssumption DEF Tasks
<1>4. AcksHandled'
  <2> SUFFICES ASSUME NEW w \in Tasks, at'[w] = "ack" PROVE is_processed(ledger'[cur'[w].event])
    BY DEF AcksHandled, Event
  <2>1. /\ cur'[w] = cur[w] /\ at[w] # "idle"
        /\ at[w] = "ack" \/ is_processed(ledger'[Event(w)])
    BY AdvanceStep DEF Advances
  <2>2. at[w] = "ack" => is_processed(ledger[Event(w)])
    BY DEF GroupInv, AcksHandled
  <2>3. is_processed(ledger'[Event(w)])
    BY <1>1, <1>2, <2>1, <2>2 DEF MovesRow
  <2> QED
    BY <2>1, <2>3 DEF Event
<1>5. NothingLost'
  <2> SUFFICES ASSUME NEW entry \in published' \ (unread' \cup pending')
               PROVE  is_processed(ledger'[entry.event])
    BY DEF NothingLost
  <2>1. entry \in published
    BY LeavesGroup
  <2>2. entry.event \in Events
    BY <2>1 DEF IInv, TypeOK, Entries
  <2>3. is_processed(ledger[entry.event])
    BY <2>1, LeavesGroup DEF GroupInv, NothingLost, AcksHandled, Event
  <2> QED
    BY <1>1, <2>2, <2>3 DEF MovesRow
<1>6. GivesUpExhausted'
  <2> SUFFICES ASSUME at'["recoverer"] = "giveup"
               PROVE  ledger'[cur'["recoverer"].event].fail_count >= MaxRetries
    BY DEF GivesUpExhausted, Exhausted, Event
  <2>1. /\ cur'["recoverer"] = cur["recoverer"] /\ at["recoverer"] # "idle"
        /\ \/ at["recoverer"] = "giveup"
           \/ ledger'[Event("recoverer")].fail_count >= MaxRetries
    BY <1>3, AdvanceStep DEF Advances
  <2>2. at["recoverer"] = "giveup" => ledger[Event("recoverer")].fail_count >= MaxRetries
    BY DEF GroupInv, GivesUpExhausted, Exhausted
  <2>3. ledger'[Event("recoverer")].fail_count >= MaxRetries
    BY <1>1, <1>2, <1>3, <2>1, <2>2 DEF MovesRow
  <2> QED
    BY <2>1, <2>3 DEF Event
<1>7. GiveUpAfterMaxRetries'
  <2> SUFFICES ASSUME NEW event \in Events, GivenUp(event)'
               PROVE  ledger'[event].fail_count >= MaxRetries
    BY DEF GiveUpAfterMaxRetries, Exhausted
  <2>1. MovesRow(event)
    BY <1>1
  <2>2. ledger[event].fail_count >= MaxRetries
    BY <2>1 DEF MovesRow, GroupInv, GivesUpExhausted, GiveUpAfterMaxRetries, Exhausted
  <2> QED
    BY <1>3, <2>1, <2>2 DEF MovesRow
<1> QED
  BY <1>4, <1>5, <1>6, <1>7 DEF GroupInv

LEMMA GroupInit == Init => GroupInv
  BY DEF Init, GroupInv, AcksHandled, NothingLost, GivesUpExhausted, GiveUpAfterMaxRetries,
     GivenUp, NoRow, Tasks

----------------------------------------------------------------------------
(* The theorems.                                                           *)

LEMMA InvInit == Init => IInv
<1> SUFFICES ASSUME Init PROVE IInv
  OBVIOUS
<1>1. TypeOK
  BY NotificationAssumption DEF Init, TypeOK, Reasons, NoReason, Places, NoRow, Row, Tasks
<1>2. HoldsPublished /\ ConsistentEvents
  BY DEF Init, HoldsPublished, ConsistentEvents, Published
<1>3. ProcessingWasRouted /\ ResultApplied /\ ClosedForCause
  BY DEF Init, ProcessingWasRouted, ResultApplied, ClosedForCause, Closed, NoRow, Absent
<1> QED
  BY <1>1, <1>2, <1>3 DEF IInv

LEMMA InvStep == IInv /\ [Next]_vars => IInv'
  BY TypeStep, HeldStep, ConsistentStep, ProcessingStep, CauseStep, ResultStep DEF IInv

\* The inductive invariant of notification-service holds in every reachable
\* state.
THEOREM Invariant == Spec => []IInv
<1> QED
  BY InvInit, InvStep, PTL DEF Spec

\* Every variable of notification-service keeps its type.
THEOREM TypeCorrect == Spec => []TypeOK
<1>1. IInv => TypeOK
  BY DEF IInv
<1> QED
  BY <1>1, Invariant, PTL

\* A result that was handled is what the notification shows, unless the
\* watchdog came first.
THEOREM NoResultIgnored == Spec => []ResultApplied
<1>1. IInv => ResultApplied
  BY DEF IInv
<1> QED
  BY <1>1, Invariant, PTL

\* A notification is closed by a published result or by the timeout of a
\* routed one.
THEOREM ClosedWithCause == Spec => []ClosedForCause
<1>1. IInv => ClosedForCause
  BY DEF IInv
<1> QED
  BY <1>1, Invariant, PTL

\* The status only takes legal transitions and terminal states never reopen,
\* whoever writes it and in whatever order events are consumed.
THEOREM StatusIsMonotonic == Spec => Monotonic
<1>1. IInv /\ [Next]_vars =>
        [\A n \in Notifications : \/ UNCHANGED <<status[n], fail_reason[n]>>
                                  \/ <<status[n], status'[n]>> \in LegalTransitions]_vars
  BY MonotonicStep DEF MovesOn
<1> QED
  BY <1>1, Invariant, PTL DEF Spec, Monotonic

\* Both invariants of notification-service hold in every reachable state.
THEOREM GroupInvariant == Spec => [](IInv /\ GroupInv)
<1>1. IInv /\ GroupInv /\ [Next]_vars => (IInv /\ GroupInv)'
  BY InvStep, GroupStep
<1> QED
  BY <1>1, InvInit, GroupInit, PTL DEF Spec

\* An entry leaves its consumer group only when its event has been handled or
\* given up on, whatever crashed, failed or was claimed meanwhile.
THEOREM NoLoss == Spec => []NothingLost
<1>1. GroupInv => NothingLost
  BY DEF GroupInv
<1> QED
  BY <1>1, GroupInvariant, PTL

\* The recoverer gives up on no event before MaxRetries failures were counted.
THEOREM GivesUpOnTime == Spec => []GiveUpAfterMaxRetries
<1>1. GroupInv => GiveUpAfterMaxRetries
  BY DEF GroupInv
<1> QED
  BY <1>1, GroupInvariant, PTL

\* No ledger row reopens and no counted failure is forgotten, whichever of the
\* three tasks writes.
THEOREM LedgerOnlyGrows == Spec => HistoryKept
<1>1. IInv /\ [Next]_vars =>
        [\A event \in Events :
           /\ is_processed(ledger[event]) => is_processed(ledger'[event])
           /\ ledger'[event].fail_count >= ledger[event].fail_count]_vars
  BY RowMoves DEF MovesRow
<1> QED
  BY <1>1, Invariant, PTL DEF Spec, HistoryKept
=============================================================================
