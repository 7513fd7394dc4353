--------------------------- MODULE TelegramWorker ---------------------------
(***************************************************************************)
(* telegram-service: the RoutedConsumer of email-service with the Bot API  *)
(* as its sender (Rejected is "telegram_rejected", Ours are the telegram   *)
(* events).  What differs is modelled here: the Bot API answers with an    *)
(* HTTP status and an ok flag, and the sender decides from them whether    *)
(* the outcome is recorded or the attempt is repeated.  Everything else is *)
(* DeliveryWorker's, and DeliveryWorker is what this module implements.    *)
(***************************************************************************)
EXTENDS DeliveryWorker

CONSTANT StatusCodes   \* the statuses the Bot API answers with

ASSUME StatusAssumption == StatusCodes \subseteq Nat

VARIABLE responses   \* history: what the Bot API answered about an event

telegramVars == <<vars, responses>>

Responses == [status_code : StatusCodes, ok : BOOLEAN]

\* Mutants: the flag is not looked at; every client error is permanent.
classify_by_status(status_code, ok) ==
    CASE status_code = 200 -> "delivered"
      [] status_code \in {400, 403} -> "rejected"
      [] OTHER -> "transient"

classify_client_errors(status_code, ok) ==
    CASE status_code = 200 /\ ok -> "delivered"
      [] status_code \in 400 .. 499 -> "rejected"
      [] OTHER -> "transient"

\* A bad token, rate limiting and whatever is unexpected are left to the retry.
classify_response(status_code, ok) ==
    CASE status_code = 200 /\ ok -> "delivered"
      [] status_code \in {400, 403} -> "rejected"
      [] OTHER -> "transient"

----------------------------------------------------------------------------
TelegramInit ==
    /\ Init
    /\ responses = [e \in Events |-> {}]

(***************************************************************************)
(* The Bot API handles a message: a message it answers 200 and ok for was  *)
(* sent, one it refuses as the client's error was not, and otherwise       *)
(* nobody knows: a body that cannot be read counts as not ok.              *)
(***************************************************************************)
BotApi(e, response) ==
    \/ response.status_code = 200 /\ Send(e)
    \/ response.status_code >= 500 /\ Send(e)
    \/ ~(response.status_code = 200 /\ response.ok) /\ UNCHANGED sent

\* BotApiSender.send(): an answer, or none before the timeout.
BotApiSend(w) ==
    \/ \E response \in Responses :
         LET outcome == classify_response(response.status_code, response.ok) IN
         /\ BotApi(Event(w), response)
         /\ responses' = [responses EXCEPT ![Event(w)] = @ \cup {response}]
         /\ \/ outcome = "delivered" /\ Deliver(w, NoReason)
            \/ outcome = "rejected" /\ Deliver(w, Rejected)
            \/ outcome = "transient" /\ Raise(w) /\ UNCHANGED fail_reason
    \/ /\ Send(Event(w)) \/ UNCHANGED sent
       /\ Raise(w)
       /\ UNCHANGED <<fail_reason, responses>>

\* _deliver(): a simulated failure or sending, or the Bot API.
DeliverMessage(w) ==
    \/ /\ _deliver(w)
       /\ Payload[Event(w)] # "ordinary"
       /\ UNCHANGED responses
    \/ /\ Working(w, "deliver")
       /\ Payload[Event(w)] = "ordinary"
       /\ BotApiSend(w)
       /\ UNCHANGED_group
       /\ UNCHANGED <<ledger, faults, delivery, outbox>>

----------------------------------------------------------------------------
\* handle() and give_up(), in the order of DeliveryWorker.
TelegramHandleStep(w) ==
    \/ Check(w) /\ UNCHANGED responses
    \/ DeliverMessage(w)
    \/ RecordOutcome(w) /\ UNCHANGED responses
    \/ w = "recoverer" /\ GiveUp /\ UNCHANGED responses

TelegramStep(w) == \/ LoopStep(w) /\ UNCHANGED <<deliveryVars, responses>>
                   \/ TelegramHandleStep(w)

TelegramNext == \/ \E w \in Workers : TelegramStep(w)
                \/ EnvironmentStep /\ UNCHANGED <<deliveryVars, responses>>

TelegramSpec == TelegramInit /\ [][TelegramNext]_telegramVars

\* As for DeliveryWorker: the tasks run forever and time passes.
TelegramFairSpec ==
    /\ TelegramSpec
    /\ \A w \in Workers : WF_telegramVars(TelegramStep(w))
    /\ \A m \in EntryIds : WF_telegramVars(Elapse(m) /\ UNCHANGED <<deliveryVars, responses>>)

----------------------------------------------------------------------------
(* Properties.                                                             *)

\* The type of the history; the rest of the state has DeliveryWorker's.
TelegramTypeOK == responses \in [Events -> SUBSET Responses]

\* Whatever the Bot API answers, the worker does what the email worker may do:
\* all it promises, telegram-service promises.
ImplementsDelivery == Spec

\* The same with its fairness: what eventually happens there happens here.
ImplementsFairDelivery == FairSpec

Answered(e, codes) == \E response \in responses[e] : response.status_code \in codes

\* What is recorded about a message is what the Bot API said about it, to
\* whichever task: a delivery was confirmed, and a rejection is a refusal of this
\* chat or message, never rate limiting, a bad token or an outage (spec 4.5).
OutcomeWasAnswered ==
    \A e \in Ours : Payload[e] = "ordinary" =>
        /\ delivery[e] = NoReason => [status_code |-> 200, ok |-> TRUE] \in responses[e]
        /\ delivery[e] = Rejected => Answered(e, {400, 403})

----------------------------------------------------------------------------
(* The inductive invariant behind them, together with DeliveryWorker's.    *)

\* What is about to be recorded was answered.
RecordsResponse ==
    \A w \in Workers :
        at[w] = "record" /\ Payload[Event(w)] = "ordinary" =>
            /\ fail_reason[w] \in {NoReason, Rejected}
            /\ fail_reason[w] = NoReason =>
                 [status_code |-> 200, ok |-> TRUE] \in responses[Event(w)]
            /\ fail_reason[w] = Rejected => Answered(Event(w), {400, 403})

TInv ==
    /\ IInv
    /\ TelegramTypeOK
    /\ RecordsResponse
    /\ OutcomeWasAnswered
=============================================================================
