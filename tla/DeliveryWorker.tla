--------------------------- MODULE DeliveryWorker ---------------------------
(***************************************************************************)
(* email-service: the RoutedConsumer on the notification.routed stream,    *)
(* under both of its callers.  handle() skips the other channel's events   *)
(* and finished ones, sends the email, and records the outcome: one row of *)
(* email_delivery, one outbox event and the ledger row, in one             *)
(* transaction.  The send is outside any transaction and cannot be undone. *)
(*                                                                         *)
(* A notification is routed by exactly one NotificationRouted event, so    *)
(* the UNIQUE(notification_id) of email_delivery is by event here; the     *)
(* stream may hold several copies of the event.                            *)
(*                                                                         *)
(* telegram-service runs the same consumer with another sender: its module *)
(* is TelegramWorker, shown to implement this one.                         *)
(***************************************************************************)
EXTENDS GroupWorker

CONSTANTS
    Payload,   \* what an event asks for
    Rejected   \* the fail_reason of a refused message: "smtp_rejected"

\* Ours are the events of this service's channel.
PayloadKinds == {"malformed",  \* no recipient or no body
                 "failing",    \* "fail" in the recipient: a failure is simulated
                 "reserved",   \* a reserved domain: the sending is simulated
                 "ordinary"}   \* sent over SMTP

ASSUME PayloadAssumption ==
    /\ Payload \in [Ours -> PayloadKinds]
    /\ Rejected \notin {"none", "no_delivery", "simulated_failure", "max_retries_exceeded"}

VARIABLES
    delivery,     \* email_delivery: the fail_reason, or NoReason, of its row
    outbox,       \* outbox rows written for an event, by event type
    sent,         \* emails that left the sender, per event
    fail_reason   \* a task's result of _deliver()

deliveryVars == <<delivery, outbox, sent, fail_reason>>

vars == <<groupVars, deliveryVars>>

NoDelivery == "no_delivery"
NoReason == "none"
FailReasons == {"simulated_failure", Rejected, "max_retries_exceeded"}
Outcomes == FailReasons \cup {NoReason}
DeliveryEvents == {"DeliveryCompleted", "DeliveryFailed"}

DeliveryEvent(reason) ==
    IF reason = NoReason THEN "DeliveryCompleted" ELSE "DeliveryFailed"

\* Mutant: a table without the constraint.
NoConstraint(e) == FALSE

\* UNIQUE(notification_id): the insert raises IntegrityError.
UniqueViolation(e) == delivery[e] # NoDelivery

\* Mutant: the event is left to the next attempt.
record_row_only(e, reason) ==
    /\ ~UniqueViolation(e)
    /\ delivery' = [delivery EXCEPT ![e] = reason]
    /\ UNCHANGED outbox

\* _record_outcome(): the row and its event.
_record_outcome(e, reason) ==
    /\ ~UniqueViolation(e)
    /\ delivery' = [delivery EXCEPT ![e] = reason]
    /\ outbox' = [outbox EXCEPT ![e][DeliveryEvent(reason)] = @ + 1]

RolledBack == UNCHANGED <<delivery, outbox, ledger>>

----------------------------------------------------------------------------
Init ==
    /\ GroupInit
    /\ delivery = [e \in Events |-> NoDelivery]
    /\ outbox = [e \in Events |-> [t \in DeliveryEvents |-> 0]]
    /\ sent = [e \in Events |-> 0]
    /\ fail_reason = [w \in Workers |-> NoReason]

(***************************************************************************)
(* The first part of handle(), up to the await of _deliver(): the ledger   *)
(* is read in a session of its own, and what it said may be stale by the   *)
(* time the outcome is recorded.                                           *)
(***************************************************************************)
Check(w) ==
    /\ Working(w, "handle")
    /\ LET e == Event(w) IN
         \/ /\ e \notin Ours \/ is_processed(ledger[e])
            /\ Goto(w, "ack")
            /\ NoFault
         \/ /\ e \in Ours /\ ~is_processed(ledger[e])
            /\ IF Payload[e] = "malformed" THEN Raise(w) ELSE Goto(w, "deliver")
            /\ NoFault
         \/ /\ e \in Ours
            /\ Raise(w)
            /\ Fault
    /\ UNCHANGED_group
    /\ UNCHANGED <<ledger, deliveryVars>>

Send(e) == sent' = [sent EXCEPT ![e] = @ + 1]

Deliver(w, reason) ==
    /\ fail_reason' = [fail_reason EXCEPT ![w] = reason]
    /\ Goto(w, "record")

\* Mutant: any answer but a refusal counts as success.
SendAssumesSuccess(w) ==
    \/ (Send(Event(w)) \/ UNCHANGED sent) /\ Deliver(w, NoReason)
    \/ UNCHANGED sent /\ Deliver(w, Rejected)

\* The SMTP server answers, permanently refuses, or cannot be used: then
\* nobody knows whether it had accepted the message before.
SmtpSend(w) ==
    \/ Send(Event(w)) /\ Deliver(w, NoReason)
    \/ UNCHANGED sent /\ Deliver(w, Rejected)
    \/ /\ Send(Event(w)) \/ UNCHANGED sent
       /\ Raise(w)
       /\ UNCHANGED fail_reason

\* _deliver(): the sender is chosen by the recipient.
_deliver(w) ==
    /\ Working(w, "deliver")
    /\ \/ /\ Payload[Event(w)] = "failing"
          /\ UNCHANGED sent
          /\ Deliver(w, "simulated_failure")
       \/ /\ Payload[Event(w)] = "reserved"
          /\ Send(Event(w))
          /\ Deliver(w, NoReason)
       \/ /\ Payload[Event(w)] = "ordinary"
          /\ SmtpSend(w)
    /\ UNCHANGED_group
    /\ UNCHANGED <<ledger, faults, delivery, outbox>>

\* The transaction that ends handle().
CommitOutcome(w) ==
    /\ _record_outcome(Event(w), fail_reason[w])
    /\ ledger' = [ledger EXCEPT ![Event(w)] = mark_processed(@)]

(***************************************************************************)
(* The outcome is recorded, or another attempt already did and the insert  *)
(* raises, or the transaction fails and may nonetheless have committed.    *)
(***************************************************************************)
RecordOutcome(w) ==
    /\ Working(w, "record")
    /\ \/ CommitOutcome(w) /\ Goto(w, "ack") /\ NoFault
       \/ UniqueViolation(Event(w)) /\ RolledBack /\ Raise(w) /\ NoFault
       \/ (CommitOutcome(w) \/ RolledBack) /\ Raise(w) /\ Fault
    /\ UNCHANGED_group
    /\ UNCHANGED <<sent, fail_reason>>

CommitGiveUp(e) ==
    /\ _record_outcome(e, "max_retries_exceeded")
    /\ ledger' = [ledger EXCEPT ![e] = mark_failed_permanent(@)]

(***************************************************************************)
(* give_up() and mark_failed_permanent() in one transaction.  Whatever it  *)
(* raises is caught, and the entry stays pending.                          *)
(***************************************************************************)
GiveUp ==
    /\ Working("recoverer", "giveup")
    /\ LET e == Event("recoverer") IN
         \/ CommitGiveUp(e) /\ Goto("recoverer", "ack") /\ NoFault
         \/ UniqueViolation(e) /\ RolledBack /\ NextMessage("recoverer") /\ NoFault
         \/ (CommitGiveUp(e) \/ RolledBack) /\ NextMessage("recoverer") /\ Fault
    /\ UNCHANGED_group
    /\ UNCHANGED <<sent, fail_reason>>

----------------------------------------------------------------------------
HandleStep(w) ==
    \/ Check(w)
    \/ _deliver(w)
    \/ RecordOutcome(w)
    \/ w = "recoverer" /\ GiveUp

WorkerStep(w) == \/ LoopStep(w) /\ UNCHANGED deliveryVars
                 \/ HandleStep(w)

Next == \/ \E w \in Workers : WorkerStep(w)
        \/ EnvironmentStep /\ UNCHANGED deliveryVars

Spec == Init /\ [][Next]_vars

(***************************************************************************)
(* run_forever() never returns and swallows every exception, so each task  *)
(* keeps taking steps; time passes.  Nothing is asked of the publisher,    *)
(* of the SMTP server or of crashes, which MaxFaults bounds.               *)
(***************************************************************************)
Fairness == /\ \A w \in Workers : WF_vars(WorkerStep(w))
            /\ \A m \in EntryIds : WF_vars(Elapse(m) /\ UNCHANGED deliveryVars)

FairSpec == Spec /\ Fairness

----------------------------------------------------------------------------
(* Properties.                                                             *)

\* The type of the state; GroupTypeOK also says where the group's ids can be.
TypeOK ==
    /\ GroupTypeOK
    /\ delivery \in [Events -> Outcomes \cup {NoDelivery}]
    /\ outbox \in [Events -> [DeliveryEvents -> Nat]]
    /\ sent \in [Events -> Nat]
    /\ fail_reason \in [Workers -> Outcomes]

\* The three writes of an outcome stand or fall together, whoever makes them
\* and however the two tasks overlap: an event has a delivery row exactly when
\* its ledger row is terminal, it was announced by exactly the one outbox event
\* its row calls for, and the ledger tells a give-up from a result
\* (RoutedConsumer.handle, give_up and PendingRecoverer._recover).
OneOutcome ==
    \A e \in Events :
        /\ Finished(e) <=> UniqueViolation(e)
        /\ ledger[e].status = "FAILED_PERMANENT" <=> delivery[e] = "max_retries_exceeded"
        /\ \A t \in DeliveryEvents :
             outbox[e][t] = IF UniqueViolation(e) /\ t = DeliveryEvent(delivery[e]) THEN 1 ELSE 0

\* An email is reported DELIVERED only if it left the sender.
DeliveredWasSent ==
    \A e \in Events : delivery[e] = NoReason => sent[e] >= 1

\* How often a recipient can get the same email: once per entry the consumer
\* was handed, once per counted retry, per fault, and once for the retry that
\* succeeded.
SendsBounded ==
    \A e \in Events :
        sent[e] <= Cardinality({m \in 1 .. delivered : Entry(m) = e})
                     + ledger[e].fail_count + faults + 1

\* An outcome is final: no later attempt, replay or give-up rewrites the
\* delivery row, or turns PROCESSED into FAILED_PERMANENT or back.
OutcomeFinal ==
    [][\A e \in Events :
         /\ UniqueViolation(e) => delivery'[e] = delivery[e]
         /\ Finished(e) => ledger'[e] = ledger[e]]_vars

\* One notification, one delivery attempt (ADR 0006): the claim of the
\* documentation, which the overlap of the two tasks refutes.
AtMostOneAttempt == \A e \in Events : sent[e] <= 1

\* The worker seen from the other services: the status a notification's
\* delivery has, its announcements, and what was acknowledged.
Effect == [e \in Ours |-> IF UniqueViolation(e) THEN DeliveryEvent(delivery[e]) ELSE NoDelivery]
Announced == [e \in Ours |-> outbox[e]]
Released == {Entry(m) : m \in Acked} \cap Ours

Promise == INSTANCE ExactlyOnce
             WITH Jobs <- Ours, Effects <- DeliveryEvents, Undecided <- NoDelivery,
                  effect <- Effect, announced <- Announced, released <- Released

\* The worker implements the promise they rely on.
ExactlyOnceOutcome == Promise!Spec
----------------------------------------------------------------------------
(* The inductive invariant behind the properties.                          *)

\* A result about to be recorded is one _deliver() can return.
RecordsResult ==
    \A w \in Workers :
        at[w] = "record" =>
            /\ fail_reason[w] # "max_retries_exceeded"
            /\ fail_reason[w] = NoReason => sent[Event(w)] >= 1

IInv ==
    /\ TypeOK
    /\ GroupInv
    /\ OneOutcome
    /\ RecordsResult
    /\ DeliveredWasSent

(***************************************************************************)
(* What SendsBounded rests on: every email that was sent is accounted for  *)
(* by an entry the consumer has tried, by an attempt the recoverer         *)
(* counted, by a fault, or by the recoverer's last attempt, which is not   *)
(* counted yet or never will be.                                           *)
(***************************************************************************)

\* Entries the consumer was handed and may still send for.
Untried ==
    todo["consumer"] \cup
        (IF at["consumer"] \in {"handle", "deliver"} THEN {cur["consumer"]} ELSE {})

Tried(e) == {m \in 1 .. delivered : Entry(m) = e} \ Untried

\* The recoverer may have sent for e without counting it: it is about to record
\* or to count the attempt, or e is finished and it is not about to send again.
Uncounted(e) ==
    IF at["recoverer"] \in {"deliver", "record", "count"} /\ Event("recoverer") = e
      THEN at["recoverer"] # "deliver"
      ELSE Finished(e)

SendsAccounted ==
    \A e \in Events :
        sent[e] <= Cardinality(Tried(e)) + ledger[e].fail_count + faults
                     + (IF Uncounted(e) THEN 1 ELSE 0)

\* The consumer handles an entry of its batch once.
HandlesOnce ==
    at["consumer"] \in {"handle", "deliver"} => cur["consumer"] \notin todo["consumer"]

SendInv == HandlesOnce /\ SendsAccounted
=============================================================================
