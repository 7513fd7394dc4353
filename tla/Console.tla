------------------------------- MODULE Console -------------------------------
(***************************************************************************)
(* The playground's console: one session sends notifications, some of them *)
(* with their channel disabled first, follows the last one on its timeline *)
(* and enables the channel again.  Each HTTP call is a step, a poll is two;*)
(* the services work between.  A script waits for each call it makes, and  *)
(* the next one starts when the session is idle.                           *)
(***************************************************************************)
EXTENDS Naturals

CONSTANTS
    Notifications,  \* the sends of one session
    Channels,
    SCENARIOS,      \* what a button or the form submits: channel, disable
    MaxFaults       \* bound: calls that raise or answer an error

VARIABLES
    enabled,   \* channels.enabled, of configuration-service
    status,    \* notifications.status
    sent,      \* the scenario a notification was submitted for
    at,        \* the call the session waits for
    tracked,   \* st.session_state.tracked
    overdue,   \* elapsed > SETTLE_TIMEOUT_S, of what is tracked
    faults

vars == <<enabled, status, sent, at, tracked, overdue, faults>>

TERMINAL == {"COMPLETED", "FAILED"}
NotificationStatus == {"CREATED", "PROCESSING"} \cup TERMINAL
Unsent == "unsent"
Untracked == [id |-> Unsent, reenable |-> FALSE, done |-> TRUE]
Idle == [call |-> "none", id |-> Unsent]
Calling(call, n) == [call |-> call, id |-> n]

Init ==
    /\ enabled = [c \in Channels |-> TRUE]
    /\ status = [n \in Notifications |-> Unsent]
    /\ sent \in [Notifications -> SCENARIOS]
    /\ at = Idle
    /\ tracked = Untracked
    /\ overdue = FALSE
    /\ faults = 0

Fault == faults < MaxFaults /\ faults' = faults + 1
NoFault == UNCHANGED faults

\* set_channel(): its caller goes on after any answer, the status is not looked
\* at, and not after an exception, which may hide that the row was written.
set_channel(c, value, next) ==
    /\ \/ enabled' = [enabled EXCEPT ![c] = value] /\ at' = next /\ NoFault
       \/ UNCHANGED enabled /\ at' = next /\ Fault
       \/ /\ enabled' = [enabled EXCEPT ![c] = value] \/ UNCHANGED enabled
          /\ at' = Idle
          /\ Fault

\* A toggle of the sidebar.
on_toggle(c, value) ==
    /\ at = Idle
    /\ set_channel(c, value, Idle)
    /\ UNCHANGED <<status, sent, tracked, overdue>>

----------------------------------------------------------------------------
(* submit().                                                               *)

Press(n) ==
    /\ at = Idle
    /\ status[n] = Unsent
    /\ at' = Calling(IF sent[n].disable THEN "disable" ELSE "post", n)
    /\ UNCHANGED <<enabled, status, sent, tracked, overdue, faults>>

Disable(n) ==
    /\ at = Calling("disable", n)
    /\ set_channel(sent[n].channel, FALSE, Calling("post", n))
    /\ UNCHANGED <<status, sent, tracked, overdue>>

\* What was tracked before is forgotten.
Post(n) ==
    /\ at = Calling("post", n)
    /\ at' = Idle
    /\ \/ /\ status' = [status EXCEPT ![n] = "CREATED"]
          /\ tracked' = [id |-> n, reenable |-> sent[n].disable, done |-> FALSE]
          /\ overdue' = FALSE
          /\ NoFault
       \/ /\ status' = [status EXCEPT ![n] = "CREATED"] \/ UNCHANGED status
          /\ UNCHANGED <<tracked, overdue>>
          /\ Fault
    /\ UNCHANGED <<enabled, sent>>

----------------------------------------------------------------------------
(* timeline().                                                             *)

\* The clock is read before the call.
Poll(n) ==
    /\ at = Idle
    /\ tracked.id = n
    /\ ~tracked.done
    /\ at' = Calling(IF overdue THEN "last_poll" ELSE "poll", n)
    /\ UNCHANGED <<enabled, status, sent, tracked, overdue, faults>>

\* The answer; the next poll tries again after one that raises or that, as an
\* error of the gateway, has no status.
Answer(n) ==
    /\ at \in {Calling("poll", n), Calling("last_poll", n)}
    /\ \/ /\ status[n] \in TERMINAL \/ at.call = "last_poll"
          /\ tracked' = [tracked EXCEPT !.done = TRUE]
          /\ at' = IF tracked.reenable THEN Calling("reenable", n) ELSE Idle
          /\ NoFault
       \/ /\ status[n] \notin TERMINAL /\ at.call = "poll"
          /\ at' = Idle
          /\ NoFault /\ UNCHANGED tracked
       \/ /\ at' = Idle
          /\ Fault /\ UNCHANGED tracked
    /\ UNCHANGED <<enabled, status, sent, overdue>>

\* If it raises the channel stays as it is: nothing is tried once done.
Reenable(n) ==
    /\ at = Calling("reenable", n)
    /\ set_channel(sent[n].channel, TRUE, Idle)
    /\ UNCHANGED <<status, sent, tracked, overdue>>

TimePasses ==
    /\ ~tracked.done
    /\ overdue' = TRUE
    /\ UNCHANGED <<enabled, status, sent, at, tracked, faults>>

----------------------------------------------------------------------------
(* The platform behind the calls.                                          *)

\* routing-service decides by the channel it reads then, or gives up.
Decide(n) ==
    /\ status[n] = "CREATED"
    /\ \E decision \in IF enabled[sent[n].channel] THEN {"PROCESSING", "FAILED"} ELSE {"FAILED"} :
         status' = [status EXCEPT ![n] = decision]
    /\ UNCHANGED <<enabled, sent, at, tracked, overdue, faults>>

Deliver(n) ==
    /\ status[n] = "PROCESSING"
    /\ \E result \in TERMINAL : status' = [status EXCEPT ![n] = result]
    /\ UNCHANGED <<enabled, sent, at, tracked, overdue, faults>>

----------------------------------------------------------------------------
Next ==
    \/ \E c \in Channels, value \in BOOLEAN : on_toggle(c, value)
    \/ \E n \in Notifications :
         \/ Press(n) \/ Disable(n) \/ Post(n)
         \/ Poll(n) \/ Answer(n) \/ Reenable(n)
         \/ Decide(n) \/ Deliver(n)
    \/ TimePasses

Spec == Init /\ [][Next]_vars

----------------------------------------------------------------------------
\* "Re-enabled only once the notification settles: routing reads the channel
\* asynchronously" (submit() in app.py; docs/guides/playground.md): when the
\* timeline sets the channel, the notification it was disabled for has ended.
ReenabledOnlyOnceSettled ==
    \A n \in Notifications : at = Calling("reenable", n) => status[n] \in TERMINAL
=============================================================================
