---------------------------- MODULE RoutingWorker ----------------------------
(***************************************************************************)
(* routing-service: the NotificationConsumer on notification.created,      *)
(* under both of its callers, with the channel table of configuration-     *)
(* service that every decision asks over HTTP.  The answer is used after   *)
(* the call returned, when the channel may have changed, and the two tasks *)
(* may ask about the same notification and be told different things: the   *)
(* UNIQUE(notification_id) of routes lets one decision through.            *)
(*                                                                         *)
(* A notification is created with exactly one NotificationCreated event,   *)
(* so routes are by event.                                                 *)
(***************************************************************************)
EXTENDS GroupWorker

CONSTANTS
    Channels,   \* configured channels
    ChannelOf,  \* the channel an event names
    Complete    \* events whose payload has a recipient and a body

Unconfigured == "unconfigured"   \* a channel the table does not have
Missing == "missing"             \* no channel in the payload

ASSUME RoutingAssumption ==
    /\ Ours = Events
    /\ Complete \subseteq Events
    /\ ChannelOf \in [Events -> Channels \cup {Unconfigured, Missing}]
    /\ {Unconfigured, Missing} \cap Channels = {}

VARIABLES
    enabled,      \* channel_config: is a channel enabled
    route,        \* routes: the fail_reason, or NoReason, of the row of an event
    outbox,       \* outbox rows written for an event, by event type
    fail_reason,  \* a task's result of _decide()
    answers       \* history: what configuration-service said of an event

routingVars == <<enabled, route, outbox, fail_reason, answers>>

vars == <<groupVars, routingVars>>

NoRoute == "no_route"
NoReason == "none"
Answers == {NoReason, "unknown_channel", "channel_disabled"}
FailReasons == {"unknown_channel", "channel_disabled", "max_retries_exceeded"}
Decisions == FailReasons \cup {NoReason}
RoutingEvents == {"NotificationRouted", "RoutingFailed"}

RoutingEvent(reason) ==
    IF reason = NoReason THEN "NotificationRouted" ELSE "RoutingFailed"

\* UNIQUE(notification_id): the insert raises IntegrityError.
UniqueViolation(e) == route[e] # NoRoute

\* Mutant: a field the payload lacks is forwarded as null.
forwards_incomplete(e, reason) == FALSE

\* A routable notification without a recipient or body raises KeyError.
Unforwardable(e, reason) == reason = NoReason /\ e \notin Complete

\* Mutant: two events, one for each of the streams an outcome may go to.
record_both(e, reason) ==
    /\ ~UniqueViolation(e)
    /\ ~Unforwardable(e, reason)
    /\ route' = [route EXCEPT ![e] = reason]
    /\ outbox' = [outbox EXCEPT ![e] = [t \in RoutingEvents |-> outbox[e][t] + 1]]

\* _record_decision(): the route row and its event.
_record_decision(e, reason) ==
    /\ ~UniqueViolation(e)
    /\ ~Unforwardable(e, reason)
    /\ route' = [route EXCEPT ![e] = reason]
    /\ outbox' = [outbox EXCEPT ![e][RoutingEvent(reason)] = @ + 1]

RolledBack == UNCHANGED <<route, outbox, ledger>>

----------------------------------------------------------------------------
Init ==
    /\ GroupInit
    /\ enabled \in [Channels -> BOOLEAN]
    /\ route = [e \in Events |-> NoRoute]
    /\ outbox = [e \in Events |-> [t \in RoutingEvents |-> 0]]
    /\ fail_reason = [w \in Workers |-> NoReason]
    /\ answers = [e \in Events |-> {}]

\* PUT /channels/{name}.
set_enabled(name, b) ==
    /\ enabled' = [enabled EXCEPT ![name] = b]
    /\ UNCHANGED <<route, outbox, fail_reason, answers, groupVars>>

(***************************************************************************)
(* The first part of handle(): the ledger is read in a session of its own. *)
(***************************************************************************)
Check(w) ==
    /\ Working(w, "handle")
    /\ LET e == Event(w) IN
         \/ /\ is_processed(ledger[e])
            /\ Goto(w, "ack")
            /\ NoFault
         \/ /\ ~is_processed(ledger[e])
            /\ IF ChannelOf[e] = Missing THEN Raise(w) ELSE Goto(w, "decide")
            /\ NoFault
         \/ Raise(w) /\ Fault
    /\ UNCHANGED_group
    /\ UNCHANGED <<ledger, routingVars>>

\* What configuration-service answers about an event's channel now.
Answer(e) ==
    CASE ChannelOf[e] = Unconfigured -> "unknown_channel"
      [] ChannelOf[e] \in Channels -> IF enabled[ChannelOf[e]] THEN NoReason ELSE "channel_disabled"

\* Mutant: an unreachable configuration-service counts as a disabled channel.
OutageDisables(w) ==
    /\ fail_reason' = [fail_reason EXCEPT ![w] = "channel_disabled"]
    /\ Goto(w, "record")
    /\ UNCHANGED answers

\* ServiceUnavailableError: handle() returns False.
Unavailable(w) ==
    /\ NotHandled(w)
    /\ UNCHANGED <<fail_reason, answers>>

\* Any other exception of the call, such as an answer that is not JSON or has
\* no "enabled": handle() raises it.
Unusable(w) ==
    /\ Raise(w)
    /\ UNCHANGED <<fail_reason, answers>>

(***************************************************************************)
(* _decide(): GET /channels/{channel}.  A timeout, a transport error or    *)
(* any status but success and 404 is an outage.                            *)
(***************************************************************************)
_decide(w) ==
    /\ Working(w, "decide")
    /\ \/ /\ fail_reason' = [fail_reason EXCEPT ![w] = Answer(Event(w))]
          /\ answers' = [answers EXCEPT ![Event(w)] = @ \cup {Answer(Event(w))}]
          /\ Goto(w, "record")
       \/ Unavailable(w)
       \/ Unusable(w)
    /\ UNCHANGED_group
    /\ UNCHANGED <<ledger, faults, enabled, route, outbox>>

\* The transaction that ends handle().
CommitDecision(w) ==
    /\ _record_decision(Event(w), fail_reason[w])
    /\ ledger' = [ledger EXCEPT ![Event(w)] = mark_processed(@)]

(***************************************************************************)
(* The decision is recorded; or another attempt already recorded one, or   *)
(* the payload cannot be forwarded, and handle() raises; or the            *)
(* transaction fails and may nonetheless have committed.                   *)
(***************************************************************************)
RecordDecision(w) ==
    /\ Working(w, "record")
    /\ \/ CommitDecision(w) /\ Goto(w, "ack") /\ NoFault
       \/ /\ UniqueViolation(Event(w)) \/ Unforwardable(Event(w), fail_reason[w])
          /\ RolledBack /\ Raise(w) /\ NoFault
       \/ (CommitDecision(w) \/ RolledBack) /\ Raise(w) /\ Fault
    /\ UNCHANGED_group
    /\ UNCHANGED <<enabled, fail_reason, answers>>

CommitGiveUp(e) ==
    /\ _record_decision(e, "max_retries_exceeded")
    /\ ledger' = [ledger EXCEPT ![e] = mark_failed_permanent(@)]

(***************************************************************************)
(* give_up() and mark_failed_permanent() in one transaction.  Whatever it  *)
(* raises is caught, and the entry stays pending.                          *)
(***************************************************************************)
GiveUp ==
    /\ Working("recoverer", "giveup")
    /\ LET e == Event("recoverer") IN
         \/ CommitGiveUp(e) /\ Goto("recoverer", "ack") /\ NoFault
         \/ UniqueViolation(e) /\ RolledBack /\ NextMessage("recoverer") /\ NoFault
         \/ (CommitGiveUp(e) \/ RolledBack) /\ NextMessage("recoverer") /\ Fault
    /\ UNCHANGED_group
    /\ UNCHANGED <<enabled, fail_reason, answers>>

----------------------------------------------------------------------------
HandleStep(w) ==
    \/ Check(w)
    \/ _decide(w)
    \/ RecordDecision(w)
    \/ w = "recoverer" /\ GiveUp

WorkerStep(w) == \/ LoopStep(w) /\ UNCHANGED routingVars
                 \/ HandleStep(w)

Next == \/ \E w \in Workers : WorkerStep(w)
        \/ EnvironmentStep /\ UNCHANGED routingVars
        \/ \E name \in Channels, b \in BOOLEAN : set_enabled(name, b)

Spec == Init /\ [][Next]_vars

\* The tasks run forever and time passes; configuration-service may stay away
\* for good.
Fairness == /\ \A w \in Workers : WF_vars(WorkerStep(w))
            /\ \A m \in EntryIds : WF_vars(Elapse(m) /\ UNCHANGED routingVars)

FairSpec == Spec /\ Fairness

----------------------------------------------------------------------------
(* Properties.                                                             *)

TypeOK ==
    /\ GroupTypeOK
    /\ enabled \in [Channels -> BOOLEAN]
    /\ route \in [Events -> Decisions \cup {NoRoute}]
    /\ outbox \in [Events -> [RoutingEvents -> Nat]]
    /\ fail_reason \in [Workers -> Answers]
    /\ answers \in [Events -> SUBSET Answers]

\* Exactly one decision: an event has a route exactly when its ledger row is
\* terminal, and was announced by exactly the one event its route calls for,
\* although the two tasks may have been told different things about the
\* channel.
OneDecision ==
    \A e \in Events :
        /\ Finished(e) <=> UniqueViolation(e)
        /\ ledger[e].status = "FAILED_PERMANENT" <=> route[e] = "max_retries_exceeded"
        /\ \A t \in RoutingEvents :
             outbox[e][t] = IF UniqueViolation(e) /\ t = RoutingEvent(route[e]) THEN 1 ELSE 0

\* An outage is never recorded as an ordinary routing failure, and nothing is
\* routed on a guess: a decision other than giving up is an answer that
\* configuration-service gave about this event.
DecisionWasAnswered ==
    \A e \in Events :
        UniqueViolation(e) /\ route[e] # "max_retries_exceeded" => route[e] \in answers[e]

\* A notification that is forwarded can be delivered: its payload is complete
\* and its channel is one the table has.
ForwardedIsDeliverable ==
    \A e \in Events :
        outbox[e]["NotificationRouted"] > 0 => e \in Complete /\ ChannelOf[e] \in Channels

\* Every notification that was created is eventually routed or failed, even if
\* configuration-service never answers.
EventuallyDecided ==
    \A e \in Events :
        (\E m \in 1 .. Len(stream) : Entry(m) = e) ~> UniqueViolation(e)

\* The worker seen from the other services.
Effect == [e \in Ours |-> IF UniqueViolation(e) THEN RoutingEvent(route[e]) ELSE NoRoute]
Announced == [e \in Ours |-> outbox[e]]
Released == {Entry(m) : m \in Acked} \cap Ours

Promise == INSTANCE ExactlyOnce
             WITH Jobs <- Ours, Effects <- RoutingEvents, Undecided <- NoRoute,
                  effect <- Effect, announced <- Announced, released <- Released

\* The worker implements the promise the delivery services rely on: one routing
\* event per notification.
ExactlyOnceDecision == Promise!Spec

----------------------------------------------------------------------------
(* The inductive invariant behind the properties.                          *)

\* A decision about to be recorded is an answer to this event.
RecordsAnswer ==
    \A w \in Workers : at[w] = "record" => fail_reason[w] \in answers[Event(w)]

\* Past the first check, an event names a channel.
NamesChannel ==
    \A w \in Workers : at[w] \in {"decide", "record"} => ChannelOf[Event(w)] # Missing

\* configuration-service only says yes to channels it has.
AnswersTrue ==
    \A e \in Events : NoReason \in answers[e] => ChannelOf[e] \in Channels

IInv ==
    /\ TypeOK
    /\ GroupInv
    /\ OneDecision
    /\ RecordsAnswer
    /\ NamesChannel
    /\ AnswersTrue
    /\ DecisionWasAnswered
    /\ ForwardedIsDeliverable
=============================================================================
