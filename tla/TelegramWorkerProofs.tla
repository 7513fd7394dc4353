------------------------- MODULE TelegramWorkerProofs -------------------------
(***************************************************************************)
(* Proofs about TelegramWorker: every step of telegram-service is a step   *)
(* email-service may take, so what is proved of DeliveryWorker holds of    *)
(* both; and what the Bot API answered supports what is recorded.          *)
(***************************************************************************)
EXTENDS TelegramWorker, DeliveryWorkerProofs

----------------------------------------------------------------------------
(* The refinement.                                                         *)

\* Whatever it is told, the Bot API sender ends as the SMTP sender does.
LEMMA BotApiSendsLikeSmtp ==
    ASSUME NEW w \in Workers, BotApiSend(w)
    PROVE  SmtpSend(w)
<1>1. ASSUME NEW response \in Responses,
             BotApi(Event(w), response),
             LET outcome == classify_response(response.status_code, response.ok) IN
               \/ outcome = "delivered" /\ Deliver(w, NoReason)
               \/ outcome = "rejected" /\ Deliver(w, Rejected)
               \/ outcome = "transient" /\ Raise(w) /\ UNCHANGED fail_reason
      PROVE  SmtpSend(w)
  <2>1. response.status_code \in Nat
    BY StatusAssumption DEF Responses
  <2>2. CASE response.status_code = 200 /\ response.ok
    BY <1>1, <2>1, <2>2 DEF classify_response, BotApi, SmtpSend
  <2>3. CASE response.status_code \in {400, 403}
    BY <1>1, <2>1, <2>3 DEF classify_response, BotApi, SmtpSend
  <2>4. CASE /\ ~(response.status_code = 200 /\ response.ok)
             /\ response.status_code \notin {400, 403}
    BY <1>1, <2>1, <2>4 DEF classify_response, BotApi, SmtpSend
  <2> QED
    BY <2>2, <2>3, <2>4
<1>2. CASE Raise(w) /\ UNCHANGED fail_reason /\ (Send(Event(w)) \/ UNCHANGED sent)
  BY <1>2 DEF SmtpSend
<1> QED
  BY <1>1, <1>2 DEF BotApiSend

LEMMA TelegramDelivers ==
    ASSUME NEW w \in Workers, DeliverMessage(w)
    PROVE  _deliver(w)
  BY BotApiSendsLikeSmtp DEF DeliverMessage, _deliver

LEMMA StepImplements == [TelegramNext]_telegramVars => [Next]_vars
<1>1. ASSUME NEW w \in Workers, TelegramStep(w) PROVE WorkerStep(w)
  BY <1>1, TelegramDelivers DEF TelegramStep, TelegramHandleStep, WorkerStep, HandleStep
<1> QED
  BY <1>1 DEF TelegramNext, Next, telegramVars

\* telegram-service implements the worker of email-service: whatever the Bot
\* API answers, or fails to, the task does what RoutedConsumer may do.
THEOREM ImplementsEmail == TelegramSpec => ImplementsDelivery
<1>1. TelegramInit => Init
  BY DEF TelegramInit
<1> QED
  BY <1>1, StepImplements, PTL DEF TelegramSpec, Spec, ImplementsDelivery

\* So its delivery row, ledger row and event are written together and once, an
\* acknowledged message has its outcome, a delivered one left the sender, and a
\* chat gets a message no more often than a mailbox does.
THEOREM OutcomeOnceToo ==
    TelegramSpec => [](OneOutcome /\ NothingLost /\ DeliveredWasSent /\ SendsBounded)
<1>1. IInv => OneOutcome /\ NothingLost /\ DeliveredWasSent
  BY DEF IInv, GroupInv
<1> QED
  BY <1>1, ImplementsEmail, Invariant, SendLimit, PTL DEF ImplementsDelivery

\* And it promises the other services what email-service promises.
THEOREM ImplementsExactlyOnceToo == TelegramSpec => ExactlyOnceOutcome
  BY ImplementsEmail, ImplementsExactlyOnce, PTL DEF ImplementsDelivery

----------------------------------------------------------------------------
(* What the Bot API answered.                                              *)

LEMMA ResponsesGrow ==
    ASSUME TelegramTypeOK, [TelegramNext]_telegramVars
    PROVE  TelegramTypeOK' /\ \A e \in Events : responses[e] \subseteq responses'[e]
<1>1. ASSUME NEW w \in Workers, NEW response \in Responses,
             responses' = [responses EXCEPT ![Event(w)] = responses[Event(w)] \cup {response}]
      PROVE  TelegramTypeOK' /\ \A e \in Events : responses[e] \subseteq responses'[e]
  BY <1>1 DEF TelegramTypeOK
<1>2. CASE UNCHANGED responses
  BY <1>2 DEF TelegramTypeOK
<1>3. ASSUME NEW w \in Workers, DeliverMessage(w)
      PROVE  TelegramTypeOK' /\ \A e \in Events : responses[e] \subseteq responses'[e]
  BY <1>1, <1>2, <1>3 DEF DeliverMessage, BotApiSend
<1> QED
  BY <1>2, <1>3 DEF TelegramNext, TelegramStep, TelegramHandleStep, telegramVars

\* What the answers to a message let the worker record about it.
Supported(answers, reason) ==
    /\ reason \in {NoReason, Rejected}
    /\ reason = NoReason => [status_code |-> 200, ok |-> TRUE] \in answers
    /\ reason = Rejected => \E response \in answers : response.status_code \in {400, 403}

\* One task's part of RecordsResponse.
RecordsResponseOf(w) ==
    at[w] = "record" /\ Payload[Event(w)] = "ordinary" =>
        Supported(responses[Event(w)], fail_reason[w])

\* A result the sender returns was answered to it.
LEMMA SenderSupports ==
    ASSUME IInv, TelegramTypeOK, NEW w \in Workers, BotApiSend(w), Event(w) \in Events,
           at'[w] = "record"
    PROVE  Supported(responses'[Event(w)], fail_reason'[w])
<1>1. PICK response \in Responses :
        LET outcome == classify_response(response.status_code, response.ok) IN
        /\ responses' = [responses EXCEPT ![Event(w)] = responses[Event(w)] \cup {response}]
        /\ \/ outcome = "delivered" /\ Deliver(w, NoReason)
           \/ outcome = "rejected" /\ Deliver(w, Rejected)
  BY DEF BotApiSend, Raise, Goto, Abandon, IInv, TypeOK, GroupTypeOK, TasksTypeOK
<1>2. response \in responses'[Event(w)] /\ response.status_code \in Nat
  BY <1>1, StatusAssumption DEF TelegramTypeOK, Responses
<1>3. CASE classify_response(response.status_code, response.ok) = "delivered"
  <2>1. response = [status_code |-> 200, ok |-> TRUE] /\ fail_reason'[w] = NoReason
    BY <1>1, <1>2, <1>3 DEF classify_response, Deliver, Responses, IInv, TypeOK
  <2> QED
    BY <1>2, <2>1, PayloadAssumption DEF Supported, NoReason
<1>4. CASE classify_response(response.status_code, response.ok) = "rejected"
  <2>1. response.status_code \in {400, 403} /\ fail_reason'[w] = Rejected
    BY <1>1, <1>2, <1>4 DEF classify_response, Deliver, IInv, TypeOK
  <2> QED
    BY <1>2, <2>1, PayloadAssumption DEF Supported, NoReason
<1> QED
  BY <1>1, <1>3, <1>4

\* A task that was about to record and stays there keeps its support.
LEMMA StillSupported ==
    ASSUME TInv, [TelegramNext]_telegramVars, NEW w \in Workers,
           at'[w] = "record" => at[w] = "record" /\ cur'[w] = cur[w],
           fail_reason'[w] = fail_reason[w],
           \A m \in 1 .. delivered : stream'[m] = stream[m]
    PROVE  RecordsResponseOf(w)'
<1> SUFFICES ASSUME at'[w] = "record", Payload[Event(w)'] = "ordinary"
             PROVE  Supported(responses'[Event(w)'], fail_reason'[w])
  BY DEF RecordsResponseOf, Supported
<1>1. at[w] = "record" /\ cur'[w] = cur[w] /\ cur[w] \in 1 .. delivered /\ Event(w) \in Events
  BY GroupAssumption DEF TInv, IInv, GroupInv, HoldsEntry, Holding
<1>2. Event(w)' = Event(w)
  BY <1>1 DEF Event, Entry
<1>3. Supported(responses[Event(w)], fail_reason[w])
  BY <1>1, <1>2 DEF TInv, RecordsResponse, Supported, Answered
<1>4. responses[Event(w)] \subseteq responses'[Event(w)]
  BY <1>1, ResponsesGrow DEF TInv
<1> QED
  BY <1>2, <1>3, <1>4 DEF Supported

LEMMA DeliverSupports ==
    ASSUME TInv, NEW w \in Workers, DeliverMessage(w)
    PROVE  RecordsResponse'
<1>1. _deliver(w) /\ Event(w) \in Events /\ UNCHANGED <<stream, delivered>>
  BY TelegramDelivers, GroupAssumption
     DEF DeliverMessage, _deliver, Working, TInv, IInv, GroupInv, HoldsEntry, UNCHANGED_group
<1>2. [TelegramNext]_telegramVars
  BY DEF TelegramNext, TelegramStep, TelegramHandleStep
<1>3. ASSUME NEW v \in Workers, v # w PROVE RecordsResponseOf(v)'
  <2>1. at'[v] = at[v] /\ cur'[v] = cur[v]
    BY <1>1, <1>3, DeliverContract, ContractMoves, OtherTaskHolds
       DEF TInv, IInv, TypeOK, GroupInv, Contract
  <2>2. fail_reason'[v] = fail_reason[v]
    BY <1>1, <1>3 DEF _deliver, SmtpSend, Deliver, TInv, IInv, TypeOK
  <2> QED
    BY <1>1, <1>2, <2>1, <2>2, StillSupported
<1>4. RecordsResponseOf(w)'
  <2> SUFFICES ASSUME at'[w] = "record", Payload[Event(w)'] = "ordinary"
               PROVE  Supported(responses'[Event(w)'], fail_reason'[w])
    BY DEF RecordsResponseOf, Supported
  <2>1. cur'[w] = cur[w]
    BY <1>1 DEF _deliver, SmtpSend, Deliver, Goto, Raise, Abandon, TInv, IInv, TypeOK, GroupTypeOK,
       TasksTypeOK
  <2>2. Event(w)' = Event(w)
    BY <1>1, <2>1 DEF Event, Entry
  <2> QED
    BY <1>1, <2>2, SenderSupports DEF DeliverMessage, TInv
<1> QED
  BY <1>3, <1>4 DEF RecordsResponse, RecordsResponseOf, Supported, Answered

LEMMA RecordsResponseStep == ASSUME TInv, [TelegramNext]_telegramVars PROVE RecordsResponse'
<1> USE DEF TInv
<1>1. ASSUME UNCHANGED fail_reason,
             \A v \in Workers : at'[v] = "record" => at[v] = "record" /\ cur'[v] = cur[v],
             \A m \in 1 .. delivered : stream'[m] = stream[m]
      PROVE  RecordsResponse'
  BY <1>1, StillSupported DEF RecordsResponse, RecordsResponseOf, Supported, Answered
<1>2. ASSUME NEW w \in Workers, LoopStep(w), UNCHANGED deliveryVars PROVE RecordsResponse'
  BY <1>1, <1>2 DEF LoopStep, Begin, FirstPlace, Ack, Read, GetPending, Claim, Count, Goto,
     NextMessage, Abandon, UNCHANGED_group, deliveryVars, IInv, TypeOK, GroupTypeOK, TasksTypeOK
<1>3. ASSUME EnvironmentStep, UNCHANGED deliveryVars PROVE RecordsResponse'
  <2>1. \A v \in Workers : at'[v] = "record" => at[v] = "record" /\ cur'[v] = cur[v]
    BY <1>3 DEF EnvironmentStep, XAdd, Elapse, Crash
  <2>2. stream \in Seq(Events \cup {Garbage}) /\ delivered \in 0 .. Len(stream)
    BY DEF IInv, TypeOK, GroupTypeOK, StreamTypeOK
  <2>3. \A m \in 1 .. delivered : stream'[m] = stream[m]
    BY <1>3, <2>2 DEF EnvironmentStep, XAdd, Elapse, Crash
  <2> QED
    BY <1>1, <1>3, <2>1, <2>3 DEF deliveryVars
<1>4. ASSUME NEW w \in Workers, Check(w) PROVE RecordsResponse'
  BY <1>1, <1>4 DEF Check, Goto, Raise, Abandon, UNCHANGED_group, deliveryVars, IInv, TypeOK,
     GroupTypeOK, TasksTypeOK
<1>5. ASSUME NEW w \in Workers, RecordOutcome(w) PROVE RecordsResponse'
  BY <1>1, <1>5 DEF RecordOutcome, Goto, Raise, Abandon, UNCHANGED_group, IInv, TypeOK,
     GroupTypeOK, TasksTypeOK
<1>6. ASSUME GiveUp PROVE RecordsResponse'
  BY <1>1, <1>6 DEF GiveUp, Goto, NextMessage, UNCHANGED_group, IInv, TypeOK, GroupTypeOK, TasksTypeOK
<1>7. CASE UNCHANGED telegramVars
  BY <1>1, <1>7 DEF telegramVars, vars, groupVars, deliveryVars
<1> QED
  BY <1>2, <1>3, <1>4, <1>5, <1>6, <1>7, DeliverSupports
     DEF TelegramNext, TelegramStep, TelegramHandleStep

\* One event's part of OutcomeWasAnswered.
OutcomeWasAnsweredOf(e) ==
    Payload[e] = "ordinary" =>
        /\ delivery[e] = NoReason => [status_code |-> 200, ok |-> TRUE] \in responses[e]
        /\ delivery[e] = Rejected => Answered(e, {400, 403})

LEMMA OutcomeAnsweredStep == ASSUME TInv, [TelegramNext]_telegramVars PROVE OutcomeWasAnswered'
<1> USE DEF TInv
<1>1. \A e \in Events : responses[e] \subseteq responses'[e]
  BY ResponsesGrow
<1>2. ASSUME NEW e \in Ours, delivery'[e] = delivery[e] PROVE OutcomeWasAnsweredOf(e)'
  BY <1>1, <1>2, GroupAssumption DEF OutcomeWasAnswered, OutcomeWasAnsweredOf, Answered
<1>3. CASE UNCHANGED delivery
  BY <1>2, <1>3 DEF OutcomeWasAnswered, OutcomeWasAnsweredOf, Answered
<1>4. ASSUME NEW w \in Workers, RecordOutcome(w) PROVE OutcomeWasAnswered'
  <2>1. PICK e \in Events : at[w] = "record" /\ e = Event(w)
    BY <1>4, GroupAssumption DEF RecordOutcome, Working, IInv, GroupInv, HoldsEntry
  <2>2. CASE delivery' = [delivery EXCEPT ![Event(w)] = fail_reason[w]]
    <3>1. OutcomeWasAnsweredOf(e)'
      BY <1>1, <2>1, <2>2 DEF RecordsResponse, OutcomeWasAnsweredOf, Answered, IInv, TypeOK
    <3>2. ASSUME NEW d \in Ours, d # e PROVE OutcomeWasAnsweredOf(d)'
      BY <1>2, <2>1, <2>2, <3>2, GroupAssumption DEF IInv, TypeOK
    <3> QED
      BY <3>1, <3>2 DEF OutcomeWasAnswered, OutcomeWasAnsweredOf, Answered
  <2> QED
    BY <1>3, <1>4, <2>2 DEF RecordOutcome, CommitOutcome, RolledBack, _record_outcome
<1>5. ASSUME GiveUp PROVE OutcomeWasAnswered'
  <2> DEFINE e == Event("recoverer")
  <2>1. CASE delivery' = [delivery EXCEPT ![e] = "max_retries_exceeded"]
    <3>1. e \in Events
      BY <1>5, GroupAssumption DEF GiveUp, Working, IInv, GroupInv, HoldsEntry, Workers
    <3>2. delivery'[e] \notin {NoReason, Rejected}
      BY <2>1, <3>1, PayloadAssumption DEF IInv, TypeOK, NoReason
    <3>3. ASSUME NEW d \in Ours, d # e PROVE OutcomeWasAnsweredOf(d)'
      BY <1>2, <2>1, <3>3, GroupAssumption DEF IInv, TypeOK
    <3> QED
      BY <3>2, <3>3 DEF OutcomeWasAnswered, OutcomeWasAnsweredOf, Answered
  <2> QED
    BY <1>3, <1>5, <2>1 DEF GiveUp, CommitGiveUp, RolledBack, _record_outcome
<1>6. ASSUME NEW w \in Workers, DeliverMessage(w) PROVE UNCHANGED delivery
  BY <1>6 DEF DeliverMessage, _deliver
<1> QED
  BY <1>3, <1>4, <1>5, <1>6 DEF TelegramNext, TelegramStep, TelegramHandleStep, Check,
     telegramVars, vars, deliveryVars

LEMMA TInvInit == TelegramInit => TInv
<1> SUFFICES ASSUME TelegramInit PROVE TInv
  OBVIOUS
<1>1. IInv
  BY InvInit DEF TelegramInit
<1>2. TelegramTypeOK
  BY DEF TelegramInit, TelegramTypeOK
<1>3. RecordsResponse
  BY DEF TelegramInit, Init, GroupInit, RecordsResponse
<1>4. OutcomeWasAnswered
  BY GroupAssumption, PayloadAssumption
     DEF TelegramInit, Init, OutcomeWasAnswered, NoDelivery, NoReason
<1> QED
  BY <1>1, <1>2, <1>3, <1>4 DEF TInv

LEMMA TInvStep == TInv /\ [TelegramNext]_telegramVars => TInv'
  BY StepImplements, InvStep, ResponsesGrow, RecordsResponseStep, OutcomeAnsweredStep DEF TInv

\* What is recorded about a message is what the Bot API said of it: DELIVERED
\* was confirmed, and a rejection is one that no retry could change.
THEOREM AnswersSupportOutcomes == TelegramSpec => []OutcomeWasAnswered
<1>1. TInv => OutcomeWasAnswered
  BY DEF TInv
<1> QED
  BY <1>1, TInvInit, TInvStep, PTL DEF TelegramSpec
=============================================================================
