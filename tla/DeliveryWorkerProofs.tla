------------------------ MODULE DeliveryWorkerProofs ------------------------
(***************************************************************************)
(* Proofs about DeliveryWorker, for every set of events, batch size, retry *)
(* limit and number of entries and faults.  The group's share of every     *)
(* step is GroupWorkerProofs; here are the steps of handle() and give_up().*)
(***************************************************************************)
EXTENDS DeliveryWorker, GroupWorkerProofs, FiniteSetTheorems

\* The component's share of the type.
DeliveryTypeOK ==
    /\ delivery \in [Events -> Outcomes \cup {NoDelivery}]
    /\ outbox \in [Events -> [DeliveryEvents -> Nat]]
    /\ sent \in [Events -> Nat]
    /\ fail_reason \in [Workers -> Outcomes]

----------------------------------------------------------------------------
(* handle() and give_up() keep the contract of RecoverableConsumer.        *)

\* Past the first check, an event is ours; where it is recorded or given up,
\* the unique constraint says whether it is finished.
LEMMA CheckContract ==
    ASSUME IInv, NEW w \in Workers, Check(w)
    PROVE  Contract(w)
  BY DEF Check, Contract, Marks, Returns, Working, HandlePlaces, Finished, IInv, GroupInv, HoldsEntry

LEMMA DeliverContract ==
    ASSUME IInv, NEW w \in Workers, _deliver(w)
    PROVE  Contract(w)
  BY DEF _deliver, SmtpSend, Deliver, Contract, Marks, Returns, Working, HandlePlaces, NoFault,
     IInv, GroupInv, HoldsEntry

LEMMA RecordContract ==
    ASSUME IInv, NEW w \in Workers, RecordOutcome(w)
    PROVE  Contract(w)
<1>1. at[w] = "record" /\ Event(w) \in Ours /\ Event(w) \in Events /\ ledger[Event(w)] \in Row
  BY GroupAssumption DEF RecordOutcome, Working, IInv, GroupInv, HoldsEntry, TypeOK, GroupTypeOK
<1>2. CommitOutcome(w) => is_processed(ledger'[Event(w)])
  BY <1>1, LedgerTyped DEF CommitOutcome, is_processed, Terminal, IInv, TypeOK, GroupTypeOK
<1> QED
  BY <1>1, <1>2 DEF RecordOutcome, CommitOutcome, RolledBack, Contract, Marks, Returns, HandlePlaces,
     NoFault

LEMMA GiveUpContract ==
    ASSUME IInv, GiveUp
    PROVE  Contract("recoverer")
<1> DEFINE e == Event("recoverer")
<1>1. at["recoverer"] = "giveup" /\ e \in Ours /\ e \in Events /\ ledger[e] \in Row
  BY GroupAssumption DEF GiveUp, Working, IInv, GroupInv, HoldsEntry, TypeOK, GroupTypeOK, Workers
<1>2. CommitGiveUp(e) => is_processed(ledger'[e])
  BY <1>1, LedgerTyped DEF CommitGiveUp, is_processed, Terminal, IInv, TypeOK, GroupTypeOK
<1>3. UniqueViolation(e) => Finished(e)
  BY <1>1 DEF IInv, OneOutcome
<1> QED
  BY <1>1, <1>2, <1>3 DEF GiveUp, CommitGiveUp, RolledBack, Contract, Marks, Returns, HandlePlaces,
     NoFault

\* Hence a step of handle() or give_up() keeps the group's invariant.
LEMMA HandleKeepsGroup ==
    ASSUME IInv, NEW w \in Workers, HandleStep(w)
    PROVE  GroupTypeOK' /\ GroupInv'
  BY CheckContract, DeliverContract, RecordContract, GiveUpContract, ContractTyped,
     ContractKeepsInv DEF HandleStep, IInv, TypeOK

----------------------------------------------------------------------------
(* The outcome.                                                            *)

\* One event's part of OneOutcome.
OneOutcomeOf(e) ==
    /\ Finished(e) <=> UniqueViolation(e)
    /\ ledger[e].status = "FAILED_PERMANENT" <=> delivery[e] = "max_retries_exceeded"
    /\ \A t \in DeliveryEvents :
         outbox[e][t] = IF UniqueViolation(e) /\ t = DeliveryEvent(delivery[e]) THEN 1 ELSE 0

\* Recording an outcome for an event that has none, with the mark that goes
\* with it, leaves exactly one.
LEMMA RecordingOnce ==
    ASSUME TypeOK, OneOutcome, NEW e \in Events, NEW reason \in Outcomes,
           _record_outcome(e, reason),
           \/ /\ reason # "max_retries_exceeded"
              /\ ledger' = [ledger EXCEPT ![e] = mark_processed(@)]
           \/ /\ reason = "max_retries_exceeded"
              /\ ledger' = [ledger EXCEPT ![e] = mark_failed_permanent(@)]
    PROVE  OneOutcome'
<1>1. ledger[e] \in Row /\ ledger \in [Events -> Row]
  BY DEF TypeOK, GroupTypeOK
<1>2. /\ delivery[e] = NoDelivery
      /\ delivery' = [delivery EXCEPT ![e] = reason]
      /\ outbox' = [outbox EXCEPT ![e] = [outbox[e] EXCEPT ![DeliveryEvent(reason)] =
                                             outbox[e][DeliveryEvent(reason)] + 1]]
  BY DEF _record_outcome, UniqueViolation
<1>3. DeliveryEvent(reason) \in DeliveryEvents /\ reason # NoDelivery
  BY PayloadAssumption DEF DeliveryEvent, DeliveryEvents, Outcomes, FailReasons, NoReason, NoDelivery
<1>4. OneOutcomeOf(e)'
  <2>1. Finished(e)'
    BY <1>1, LedgerTyped DEF Finished, is_processed, Terminal
  <2>2. (ledger[e].status = "FAILED_PERMANENT")' <=> reason = "max_retries_exceeded"
    BY <1>1, LedgerTyped
  <2>3. delivery'[e] = reason
    BY <1>2 DEF TypeOK
  <2>4. ASSUME NEW t \in DeliveryEvents
        PROVE  outbox'[e][t] = IF t = DeliveryEvent(reason) THEN 1 ELSE 0
    <3>1. outbox[e][t] = 0 /\ outbox[e] \in [DeliveryEvents -> Nat]
      BY <1>2 DEF OneOutcome, UniqueViolation, TypeOK
    <3> QED
      BY <1>2, <1>3, <3>1 DEF TypeOK
  <2> QED
    BY <1>3, <2>1, <2>2, <2>3, <2>4 DEF OneOutcomeOf, UniqueViolation, DeliveryEvent
<1>5. ASSUME NEW d \in Events, d # e PROVE OneOutcomeOf(d)'
  <2>1. UNCHANGED <<ledger[d], delivery[d], outbox[d]>>
    BY <1>1, <1>2, <1>5 DEF TypeOK
  <2> QED
    BY <2>1 DEF OneOutcome, OneOutcomeOf, Finished, UniqueViolation
<1> QED
  BY <1>4, <1>5 DEF OneOutcome, OneOutcomeOf

\* A row of the ledger that is not marked keeps its event's outcome.
LEMMA NotRecording ==
    ASSUME TypeOK, OneOutcome, UNCHANGED <<delivery, outbox>>,
           \A e \in Events : \/ ledger'[e] = ledger[e]
                             \/ ~Finished(e) /\ ~Finished(e)' /\ ledger'[e].status = "FAILING"
    PROVE  OneOutcome'
  BY DEF OneOutcome, Finished, UniqueViolation, is_processed, Terminal

LEMMA OutcomeStep == ASSUME IInv, [Next]_vars PROVE OneOutcome'
<1> USE DEF IInv
<1>1. ASSUME NEW w \in Workers, LoopStep(w), UNCHANGED deliveryVars PROVE OneOutcome'
  <2>1. CASE UNCHANGED ledger
    BY <1>1, <2>1, NotRecording DEF deliveryVars
  <2>2. CASE CountFailure
    <3>1. \A e \in Events : \/ ledger'[e] = ledger[e]
                            \/ ~Finished(e) /\ ~Finished(e)' /\ ledger'[e].status = "FAILING"
      BY <2>2, IncrementCounts DEF CountFailure, Finished, TypeOK, GroupTypeOK
    <3> QED
      BY <1>1, <3>1, NotRecording DEF deliveryVars
  <2> QED
    BY <1>1, <2>1, <2>2 DEF LoopStep, Begin, Ack, Read, GetPending, Claim, Count
<1>2. ASSUME NEW w \in Workers, RecordOutcome(w) PROVE OneOutcome'
  <2>1. /\ Event(w) \in Events
        /\ fail_reason[w] \in Outcomes
        /\ fail_reason[w] # "max_retries_exceeded"
    BY <1>2, GroupAssumption DEF RecordOutcome, Working, GroupInv, HoldsEntry, RecordsResult, TypeOK
  <2>2. CASE CommitOutcome(w)
    BY <2>1, <2>2, RecordingOnce DEF CommitOutcome
  <2>3. CASE RolledBack
    BY <2>3, NotRecording DEF RolledBack
  <2> QED
    BY <1>2, <2>2, <2>3 DEF RecordOutcome
<1>3. ASSUME GiveUp PROVE OneOutcome'
  <2>1. Event("recoverer") \in Events /\ "max_retries_exceeded" \in Outcomes
    BY <1>3, GroupAssumption DEF GiveUp, Working, GroupInv, HoldsEntry, Workers, Outcomes, FailReasons
  <2>2. CASE CommitGiveUp(Event("recoverer"))
    BY <2>1, <2>2, RecordingOnce DEF CommitGiveUp
  <2>3. CASE RolledBack
    BY <2>3, NotRecording DEF RolledBack
  <2> QED
    BY <1>3, <2>2, <2>3 DEF GiveUp
<1>4. CASE UNCHANGED <<ledger, delivery, outbox>>
  BY <1>4, NotRecording
<1> QED
  BY <1>1, <1>2, <1>3, <1>4 DEF Next, WorkerStep, HandleStep, EnvironmentStep, XAdd, Elapse, Crash,
     Check, _deliver, vars, groupVars, deliveryVars

----------------------------------------------------------------------------
(* Types, and what is about to be recorded.                                *)

LEMMA DeliveryTypeStep == ASSUME IInv, [Next]_vars PROVE DeliveryTypeOK'
<1> USE DEF DeliveryTypeOK
<1>1. DeliveryTypeOK
  BY DEF IInv, TypeOK
<1>2. ASSUME NEW w \in Workers, _deliver(w) PROVE DeliveryTypeOK'
  BY <1>1, <1>2 DEF _deliver, SmtpSend, Deliver, Send, Outcomes, FailReasons, NoReason
<1>3. ASSUME NEW e \in Events, NEW reason \in Outcomes, _record_outcome(e, reason),
             UNCHANGED <<sent, fail_reason>>
      PROVE  DeliveryTypeOK'
  <2>1. DeliveryEvent(reason) \in DeliveryEvents
    BY DEF DeliveryEvent, DeliveryEvents
  <2> QED
    BY <1>1, <1>3, <2>1 DEF _record_outcome
<1>4. ASSUME NEW w \in Workers, RecordOutcome(w) PROVE DeliveryTypeOK'
  <2>1. Event(w) \in Events /\ fail_reason[w] \in Outcomes
    BY <1>1, <1>4, GroupAssumption DEF RecordOutcome, Working, IInv, GroupInv, HoldsEntry
  <2> QED
    BY <1>1, <1>3, <1>4, <2>1 DEF RecordOutcome, CommitOutcome, RolledBack
<1>5. ASSUME GiveUp PROVE DeliveryTypeOK'
  <2>1. Event("recoverer") \in Events /\ "max_retries_exceeded" \in Outcomes
    BY <1>5, GroupAssumption DEF GiveUp, Working, IInv, GroupInv, HoldsEntry, Workers, Outcomes,
       FailReasons
  <2> QED
    BY <1>1, <1>3, <1>5, <2>1 DEF GiveUp, CommitGiveUp, RolledBack
<1>6. CASE UNCHANGED deliveryVars
  BY <1>1, <1>6 DEF deliveryVars
<1>7. ASSUME NEW w \in Workers, WorkerStep(w) PROVE DeliveryTypeOK'
  <2>1. Check(w) => UNCHANGED deliveryVars
    BY DEF Check
  <2> QED
    BY <1>2, <1>4, <1>5, <1>6, <1>7, <2>1 DEF WorkerStep, HandleStep
<1> QED
  BY <1>6, <1>7 DEF Next, vars

LEMMA GroupStep == ASSUME IInv, [Next]_vars PROVE GroupTypeOK' /\ GroupInv'
<1>1. ASSUME NEW w \in Workers, LoopStep(w) PROVE GroupTypeOK' /\ GroupInv'
  BY <1>1, LoopTyped, LoopKeepsInv DEF IInv, TypeOK
<1>2. CASE EnvironmentStep
  BY <1>2, EnvironmentTyped, EnvironmentKeepsInv DEF IInv, TypeOK
<1>3. CASE UNCHANGED vars
  BY <1>3 DEF IInv, TypeOK, vars, groupVars, GroupTypeOK, StreamTypeOK, TasksTypeOK, GroupInv,
     HoldsEntry, AcksSettled, NothingLost, GivesUpExhausted, GiveUpAfterMaxRetries, AttemptsLeft,
     RetriesBounded, Holding, Acked, Settled, Finished, GivingUp, Working, Event, Entry
<1> QED
  BY <1>1, <1>2, <1>3, HandleKeepsGroup DEF Next, WorkerStep

\* One task's part of RecordsResult.
RecordsResultOf(w) ==
    at[w] = "record" =>
        /\ fail_reason[w] # "max_retries_exceeded"
        /\ fail_reason[w] = NoReason => sent[Event(w)] >= 1

\* It survives a step in which w does not come to "record".
LEMMA StillRecords ==
    ASSUME IInv, NEW w \in Workers,
           at'[w] = "record" => at[w] = "record" /\ cur'[w] = cur[w],
           fail_reason'[w] = fail_reason[w],
           \A m \in 1 .. delivered : stream'[m] = stream[m],
           sent' \in [Events -> Nat],
           \A e \in Events : sent'[e] >= sent[e]
    PROVE  RecordsResultOf(w)'
<1> SUFFICES ASSUME at'[w] = "record"
             PROVE  /\ fail_reason'[w] # "max_retries_exceeded"
                    /\ fail_reason'[w] = NoReason => sent'[Event(w)'] >= 1
  BY DEF RecordsResultOf
<1>1. at[w] = "record" /\ cur'[w] = cur[w] /\ cur[w] \in 1 .. delivered /\ Event(w) \in Events
  BY GroupAssumption DEF IInv, GroupInv, HoldsEntry, Holding
<1>2. Event(w)' = Event(w)
  BY <1>1 DEF Event, Entry
<1>3. sent[Event(w)] \in Nat /\ sent'[Event(w)] \in Nat
  BY <1>1 DEF IInv, TypeOK
<1> QED
  BY <1>1, <1>2, <1>3 DEF IInv, RecordsResult

LEMMA DeliverRecords ==
    ASSUME IInv, NEW w \in Workers, _deliver(w)
    PROVE  RecordsResult' /\ DeliveredWasSent'
<1>1. Event(w) \in Events /\ UNCHANGED <<stream, delivered, delivery>>
  BY GroupAssumption DEF _deliver, Working, IInv, GroupInv, HoldsEntry, UNCHANGED_group
<1>2. /\ sent \in [Events -> Nat] /\ sent' \in [Events -> Nat]
      /\ \A e \in Events : sent'[e] >= sent[e]
  <2>1. sent' = sent \/ sent' = [sent EXCEPT ![Event(w)] = sent[Event(w)] + 1]
    BY DEF _deliver, SmtpSend, Send
  <2>2. sent \in [Events -> Nat]
    BY DEF IInv, TypeOK
  <2> QED
    BY <1>1, <2>1, <2>2
<1>3. DeliveredWasSent'
  BY <1>1, <1>2 DEF IInv, DeliveredWasSent
<1>4. ASSUME NEW v \in Workers, v # w PROVE RecordsResultOf(v)'
  <2>1. at'[v] = at[v] /\ cur'[v] = cur[v]
    BY <1>1, <1>4, DeliverContract, ContractMoves, OtherTaskHolds
       DEF IInv, TypeOK, GroupInv, Contract
  <2>2. fail_reason'[v] = fail_reason[v]
    BY <1>4 DEF _deliver, SmtpSend, Deliver, IInv, TypeOK
  <2> QED
    BY <1>1, <1>2, <2>1, <2>2, StillRecords
<1>5. RecordsResultOf(w)'
  <2>1. CASE Goto(w, "record")
    <3>1. \/ Deliver(w, NoReason) /\ Send(Event(w))
          \/ Deliver(w, Rejected)
          \/ Deliver(w, "simulated_failure")
      BY <2>1 DEF _deliver, SmtpSend, Raise, Goto, Abandon, Working, IInv, TypeOK, GroupTypeOK,
         TasksTypeOK
    <3>2. fail_reason'[w] \in {NoReason, Rejected, "simulated_failure"}
      BY <3>1 DEF Deliver, IInv, TypeOK
    <3>3. fail_reason'[w] = NoReason => sent'[Event(w)] >= 1
      BY <1>1, <3>1, PayloadAssumption DEF Deliver, Send, NoReason, IInv, TypeOK
    <3>4. Event(w)' = Event(w)
      BY <1>1, <2>1 DEF Goto, Event, Entry
    <3> QED
      BY <3>2, <3>3, <3>4, PayloadAssumption DEF RecordsResultOf, NoReason
  <2>2. CASE Raise(w)
    BY <2>2 DEF RecordsResultOf, Raise, Goto, Abandon, IInv, TypeOK, GroupTypeOK, TasksTypeOK
  <2> QED
    BY <2>1, <2>2 DEF _deliver, SmtpSend, Deliver
<1> QED
  BY <1>3, <1>4, <1>5 DEF RecordsResult, RecordsResultOf

LEMMA RecordsStep == ASSUME IInv, [Next]_vars PROVE RecordsResult' /\ DeliveredWasSent'
<1>1. ASSUME UNCHANGED <<sent, fail_reason>>,
             \A v \in Workers : at'[v] = "record" => at[v] = "record" /\ cur'[v] = cur[v],
             \A m \in 1 .. delivered : stream'[m] = stream[m]
      PROVE  RecordsResult'
  <2>1. sent' \in [Events -> Nat] /\ \A e \in Events : sent'[e] >= sent[e]
    BY <1>1 DEF IInv, TypeOK
  <2> QED
    BY <1>1, <2>1, StillRecords DEF RecordsResult, RecordsResultOf
<1>2. ASSUME UNCHANGED <<delivery, sent>> PROVE DeliveredWasSent'
  BY <1>2 DEF IInv, DeliveredWasSent
<1>3. ASSUME NEW w \in Workers, LoopStep(w), UNCHANGED deliveryVars
      PROVE  RecordsResult' /\ DeliveredWasSent'
  BY <1>1, <1>2, <1>3 DEF LoopStep, Begin, FirstPlace, Ack, Read, GetPending, Claim, Count, Goto,
     NextMessage, Abandon, UNCHANGED_group, deliveryVars, IInv, TypeOK, GroupTypeOK, TasksTypeOK
<1>4. ASSUME EnvironmentStep, UNCHANGED deliveryVars
      PROVE  RecordsResult' /\ DeliveredWasSent'
  <2>1. UNCHANGED <<delivery, sent, fail_reason>>
    BY <1>4 DEF deliveryVars
  <2>2. \A v \in Workers : at'[v] = "record" => at[v] = "record" /\ cur'[v] = cur[v]
    BY <1>4 DEF EnvironmentStep, XAdd, Elapse, Crash
  <2>3. stream \in Seq(Events \cup {Garbage}) /\ delivered \in 0 .. Len(stream)
    BY DEF IInv, TypeOK, GroupTypeOK, StreamTypeOK
  <2>4. \A m \in 1 .. delivered : stream'[m] = stream[m]
    BY <1>4, <2>3 DEF EnvironmentStep, XAdd, Elapse, Crash
  <2> QED
    BY <1>1, <1>2, <2>1, <2>2, <2>4
<1>5. ASSUME NEW w \in Workers, Check(w)
      PROVE  RecordsResult' /\ DeliveredWasSent'
  BY <1>1, <1>2, <1>5 DEF Check, Goto, Raise, Abandon, UNCHANGED_group, deliveryVars, IInv, TypeOK,
     GroupTypeOK, TasksTypeOK
<1>6. ASSUME NEW w \in Workers, RecordOutcome(w)
      PROVE  RecordsResult' /\ DeliveredWasSent'
  <2>1. RecordsResult'
    BY <1>1, <1>6 DEF RecordOutcome, Goto, Raise, Abandon, UNCHANGED_group, IInv, TypeOK,
       GroupTypeOK, TasksTypeOK
  <2>2. at[w] = "record" /\ Event(w) \in Events
    BY <1>6, GroupAssumption DEF RecordOutcome, Working, IInv, GroupInv, HoldsEntry
  <2>3. fail_reason[w] = NoReason => sent[Event(w)] >= 1
    BY <2>2 DEF IInv, RecordsResult
  <2> QED
    BY <1>6, <2>1, <2>2, <2>3 DEF RecordOutcome, CommitOutcome, RolledBack, _record_outcome, IInv,
       DeliveredWasSent, TypeOK
<1>7. ASSUME GiveUp
      PROVE  RecordsResult' /\ DeliveredWasSent'
  <2>1. RecordsResult'
    BY <1>1, <1>7 DEF GiveUp, Goto, NextMessage, UNCHANGED_group, IInv, TypeOK, GroupTypeOK,
       TasksTypeOK
  <2> QED
    BY <1>7, <2>1 DEF GiveUp, CommitGiveUp, RolledBack, _record_outcome, IInv, DeliveredWasSent,
       TypeOK, NoReason
<1>8. CASE UNCHANGED vars
  BY <1>1, <1>2, <1>8 DEF vars, groupVars, deliveryVars
<1> QED
  BY <1>3, <1>4, <1>5, <1>6, <1>7, <1>8, DeliverRecords DEF Next, WorkerStep, HandleStep

----------------------------------------------------------------------------
(* The theorems.                                                           *)

LEMMA InvInit == Init => IInv
<1> SUFFICES ASSUME Init PROVE IInv
  OBVIOUS
<1>1. GroupTypeOK /\ GroupInv
  BY GroupTypeInit, GroupInvInit DEF Init
<1>2. DeliveryTypeOK
  BY DEF Init, DeliveryTypeOK, Outcomes, NoReason, DeliveryEvents
<1>3. OneOutcome
  BY DEF Init, GroupInit, OneOutcome, Finished, UniqueViolation, is_processed, Terminal, NoRow,
     NoDelivery
<1>4. RecordsResult /\ DeliveredWasSent
  BY DEF Init, GroupInit, RecordsResult, DeliveredWasSent, NoDelivery, NoReason
<1> QED
  BY <1>1, <1>2, <1>3, <1>4 DEF IInv, TypeOK, DeliveryTypeOK

LEMMA InvStep == IInv /\ [Next]_vars => IInv'
  BY GroupStep, DeliveryTypeStep, OutcomeStep, RecordsStep DEF IInv, TypeOK, DeliveryTypeOK

\* The invariant of the two tasks, of the ledger and of the recorded outcomes
\* holds in every reachable state.
THEOREM Invariant == Spec => []IInv
  BY InvInit, InvStep, PTL DEF Spec

\* The state is well typed: pending entries were delivered, idle ones are
\* pending, and a task only holds delivered ones.
THEOREM TypeCorrect == Spec => []TypeOK
<1>1. IInv => TypeOK
  BY DEF IInv
<1> QED
  BY <1>1, Invariant, PTL

\* Delivery row, ledger row and outbox event of a notification are written
\* together and once, however the consumer and the recoverer overlap.
THEOREM OutcomeOnce == Spec => []OneOutcome
<1>1. IInv => OneOutcome
  BY DEF IInv
<1> QED
  BY <1>1, Invariant, PTL

\* An acknowledged entry of this service's channel has its outcome on record,
\* whatever was lost, abandoned or crashed before.
THEOREM NoLoss == Spec => []NothingLost
<1>1. IInv => NothingLost
  BY DEF IInv, GroupInv
<1> QED
  BY <1>1, Invariant, PTL

\* The recoverer never gives up before PENDING_MAX_RETRIES counted attempts.
THEOREM GivesUpLate == Spec => []GiveUpAfterMaxRetries
<1>1. IInv => GiveUpAfterMaxRetries
  BY DEF IInv, GroupInv
<1> QED
  BY <1>1, Invariant, PTL

\* The recoverer never counts more than PENDING_MAX_RETRIES attempts but for
\* crashes and failed calls.
THEOREM RetryLimit == Spec => []RetriesBounded
<1>1. IInv => RetriesBounded
  BY DEF IInv, GroupInv
<1> QED
  BY <1>1, Invariant, PTL

\* A notification reported delivered was handed to the sender.
THEOREM ReportedWasSent == Spec => []DeliveredWasSent
<1>1. IInv => DeliveredWasSent
  BY DEF IInv
<1> QED
  BY <1>1, Invariant, PTL

----------------------------------------------------------------------------
(* What a step may not do, and the abstract promise.                       *)

\* Every step, as far as the outcomes are concerned: it records the outcome of
\* one event that had none, or it leaves rows and announcements alone and
\* reopens no finished ledger row.
LEMMA StepRecords ==
    ASSUME IInv, [Next]_vars
    PROVE  \/ \E e \in Ours, reason \in Outcomes :
                 /\ _record_outcome(e, reason)
                 /\ \A d \in Events : d # e => ledger'[d] = ledger[d]
                 /\ Acked' = Acked
                 /\ stream' = stream
           \/ /\ UNCHANGED <<delivery, outbox>>
              /\ \A d \in Events : Finished(d) => ledger'[d] = ledger[d]
<1> DEFINE Rest == /\ UNCHANGED <<delivery, outbox>>
                   /\ \A d \in Events : Finished(d) => ledger'[d] = ledger[d]
<1>1. ASSUME NEW w \in Workers, LoopStep(w), UNCHANGED deliveryVars PROVE Rest
  <2>1. CountFailure => \A d \in Events : Finished(d) => ledger'[d] = ledger[d]
    BY IncrementCounts DEF CountFailure, Finished, IInv, TypeOK, GroupTypeOK
  <2> QED
    BY <1>1, <2>1 DEF LoopStep, Begin, Ack, Read, GetPending, Claim, Count, deliveryVars
<1>2. ASSUME NEW w \in Workers, RecordOutcome(w), ~Rest
      PROVE  \E e \in Ours, reason \in Outcomes :
                 /\ _record_outcome(e, reason)
                 /\ \A d \in Events : d # e => ledger'[d] = ledger[d]
                 /\ Acked' = Acked
                 /\ stream' = stream
  <2>1. Event(w) \in Ours /\ fail_reason[w] \in Outcomes
    BY <1>2 DEF RecordOutcome, Working, IInv, GroupInv, HoldsEntry, TypeOK
  <2>2. CommitOutcome(w)
    BY <1>2 DEF RecordOutcome, RolledBack
  <2>3. \A d \in Events : d # Event(w) => ledger'[d] = ledger[d]
    BY <2>2 DEF CommitOutcome, IInv, TypeOK, GroupTypeOK
  <2> QED
    BY <1>2, <2>1, <2>2, <2>3 DEF RecordOutcome, CommitOutcome, UNCHANGED_group, Acked
<1>3. ASSUME GiveUp, ~Rest
      PROVE  \E e \in Ours, reason \in Outcomes :
                 /\ _record_outcome(e, reason)
                 /\ \A d \in Events : d # e => ledger'[d] = ledger[d]
                 /\ Acked' = Acked
                 /\ stream' = stream
  <2> DEFINE e == Event("recoverer")
  <2>1. e \in Ours /\ "max_retries_exceeded" \in Outcomes
    BY <1>3 DEF GiveUp, Working, IInv, GroupInv, HoldsEntry, Workers, Outcomes, FailReasons
  <2>2. CommitGiveUp(e)
    BY <1>3 DEF GiveUp, RolledBack
  <2>3. \A d \in Events : d # e => ledger'[d] = ledger[d]
    BY <2>2 DEF CommitGiveUp, IInv, TypeOK, GroupTypeOK
  <2> QED
    BY <1>3, <2>1, <2>2, <2>3 DEF GiveUp, CommitGiveUp, UNCHANGED_group, Acked
<1>4. CASE UNCHANGED <<ledger, delivery, outbox>>
  BY <1>4
<1> QED
  BY <1>1, <1>2, <1>3, <1>4 DEF Next, WorkerStep, HandleStep, EnvironmentStep, XAdd, Elapse, Crash,
     Check, _deliver, vars, groupVars, deliveryVars

\* The outcome of a notification is final: neither a replay nor a late give-up
\* rewrites its delivery row or its ledger row.
THEOREM OutcomeIsFinal == Spec => OutcomeFinal
<1>1. ASSUME IInv, [Next]_vars, NEW e \in Events
      PROVE  /\ UniqueViolation(e) => delivery'[e] = delivery[e]
             /\ Finished(e) => ledger'[e] = ledger[e]
  <2>1. Finished(e) <=> UniqueViolation(e)
    BY <1>1 DEF IInv, OneOutcome
  <2>2. ASSUME NEW d \in Ours, NEW reason \in Outcomes, _record_outcome(d, reason), UniqueViolation(e)
        PROVE  d # e /\ delivery'[e] = delivery[e]
    BY <1>1, <2>2, GroupAssumption DEF _record_outcome, UniqueViolation, IInv, TypeOK
  <2> QED
    BY <1>1, <2>1, <2>2, StepRecords
<1>2. IInv /\ [Next]_vars =>
        [\A e \in Events :
           /\ UniqueViolation(e) => delivery'[e] = delivery[e]
           /\ Finished(e) => ledger'[e] = ledger[e]]_vars
  BY <1>1
<1> QED
  BY <1>2, Invariant, PTL DEF Spec, OutcomeFinal

\* What the group has released grows only by an XACK, and then by the event it
\* acknowledges.
LEMMA StepReleases ==
    ASSUME IInv, [Next]_vars
    PROVE  \/ Released' = Released
           \/ \E j \in Ours : /\ Finished(j)
                              /\ Released' = Released \cup {j}
                              /\ UNCHANGED <<delivery, outbox>>
<1> USE DEF IInv, TypeOK, GroupTypeOK, StreamTypeOK, TasksTypeOK
<1>1. ASSUME NEW w \in Workers, Ack(w), UNCHANGED deliveryVars
      PROVE  \/ Released' = Released
             \/ \E j \in Ours : /\ Finished(j)
                                /\ Released' = Released \cup {j}
                                /\ UNCHANGED <<delivery, outbox>>
  <2>1. /\ at[w] = "ack" /\ cur[w] \in 1 .. delivered /\ Settled(cur[w])
        /\ stream' = stream /\ delivered' = delivered
        /\ pel' = pel \/ pel' = pel \ {cur[w]}
    BY <1>1 DEF Ack, Working, GroupInv, HoldsEntry, AcksSettled, Holding
  <2>2. Acked' = Acked \/ Acked' = Acked \cup {cur[w]}
    BY <2>1 DEF Acked
  <2>3. CASE Event(w) \in Ours
    <3>1. Finished(Event(w))
      BY <2>1, <2>3 DEF Settled, Event
    <3>2. Released' = Released \/ Released' = Released \cup {Event(w)}
      BY <2>1, <2>2, <2>3 DEF Released, Event, Entry
    <3> QED
      BY <1>1, <2>3, <3>1, <3>2 DEF deliveryVars
  <2>4. CASE Event(w) \notin Ours
    BY <2>1, <2>2, <2>4 DEF Released, Event, Entry
  <2> QED
    BY <2>3, <2>4
<1>2. CASE Read
  <2>1. LastOfBatch \in delivered .. Len(stream)
    BY <1>2, GroupAssumption DEF Read, LastOfBatch
  <2>2. Acked' = Acked /\ stream' = stream
    BY <1>2, <2>1 DEF Read, Acked
  <2> QED
    BY <2>2 DEF Released, Entry
<1>3. ASSUME NEW e \in Events \cup {Garbage}, XAdd(e) PROVE Released' = Released
  <2>1. Acked' = Acked /\ \A m \in Acked : stream'[m] = stream[m]
    BY <1>3 DEF XAdd, Acked
  <2> QED
    BY <2>1 DEF Released, Entry
<1>4. CASE UNCHANGED <<stream, delivered, pel>>
  BY <1>4 DEF Released, Entry, Acked
<1> QED
  BY <1>1, <1>2, <1>3, <1>4 DEF Next, WorkerStep, LoopStep, HandleStep, EnvironmentStep, Begin,
     GetPending, Claim, Count, Check, _deliver, RecordOutcome, GiveUp, Elapse, Crash,
     UNCHANGED_group, vars, groupVars

\* A recorded outcome is a Settle step of the promise, an acknowledgement a
\* Release step, and everything else stutters.
LEMMA StepRefines == IInv /\ [Next]_vars => [Promise!Next]_Promise!vars
<1> SUFFICES ASSUME IInv, [Next]_vars PROVE [Promise!Next]_Promise!vars
  OBVIOUS
<1>1. ASSUME NEW e \in Ours, NEW reason \in Outcomes, _record_outcome(e, reason),
             Acked' = Acked, stream' = stream
      PROVE  Promise!Settle(e, DeliveryEvent(reason))
  <2>1. e \in Events /\ ~UniqueViolation(e)
    BY <1>1, GroupAssumption DEF _record_outcome
  <2>2. /\ delivery' = [delivery EXCEPT ![e] = reason] /\ delivery \in [Events -> Outcomes \cup {NoDelivery}]
        /\ outbox' = [outbox EXCEPT ![e][DeliveryEvent(reason)] = outbox[e][DeliveryEvent(reason)] + 1]
        /\ outbox \in [Events -> [DeliveryEvents -> Nat]]
        /\ reason # NoDelivery
    BY <1>1, PayloadAssumption
       DEF _record_outcome, IInv, TypeOK, Outcomes, FailReasons, NoReason, NoDelivery
  <2>3. Effect[e] = NoDelivery
    BY <2>1 DEF Effect
  <2>4. Effect' = [Effect EXCEPT ![e] = DeliveryEvent(reason)]
    BY <2>1, <2>2, GroupAssumption DEF Effect, UniqueViolation, DeliveryEvent
  <2>5. Announced' = [Announced EXCEPT ![e][DeliveryEvent(reason)] = @ + 1]
    BY <2>1, <2>2, GroupAssumption DEF Announced
  <2>6. Released' = Released
    BY <1>1 DEF Released, Entry
  <2> QED
    BY <2>3, <2>4, <2>5, <2>6 DEF Promise!Settle
<1>2. ASSUME NEW j \in Ours, Finished(j), Released' = Released \cup {j}, UNCHANGED <<delivery, outbox>>
      PROVE  Promise!Release(j)
  <2>1. Effect[j] # NoDelivery
    BY <1>2, GroupAssumption DEF IInv, OneOutcome, Effect, DeliveryEvent, NoDelivery
  <2> QED
    BY <1>2, <2>1 DEF Promise!Release, Effect, Announced, UniqueViolation
<1>3. CASE UNCHANGED <<delivery, outbox>> /\ Released' = Released
  BY <1>3 DEF Promise!vars, Effect, Announced, UniqueViolation
<1>4. \A reason : DeliveryEvent(reason) \in DeliveryEvents
  BY DEF DeliveryEvent, DeliveryEvents
<1> QED
  BY <1>1, <1>2, <1>3, <1>4, StepRecords, StepReleases DEF Promise!Next

\* email-service implements ExactlyOnce: one final outcome per notification,
\* announced by exactly one event, and no acknowledgement before it.
THEOREM ImplementsExactlyOnce == Spec => ExactlyOnceOutcome
<1>1. Init => Promise!Init
  BY GroupAssumption DEF Init, GroupInit, Promise!Init, Effect, Announced, Released, UniqueViolation, Acked
<1> QED
  BY <1>1, StepRefines, Invariant, PTL DEF Spec, ExactlyOnceOutcome, Promise!Spec
----------------------------------------------------------------------------
(* How often an email is sent.                                             *)

\* What every step leaves of the group: delivered entries stay what they are,
\* and no finished event is reopened nor a counted attempt forgotten.
LEMMA GroupGrows ==
    ASSUME IInv, [Next]_vars
    PROVE  /\ delivered \in Nat /\ delivered' \in Nat /\ delivered <= delivered'
           /\ \A m \in 1 .. delivered : stream'[m] = stream[m]
           /\ faults \in Nat /\ faults' \in Nat /\ faults <= faults'
           /\ \A e \in Events : /\ ledger[e].fail_count \in Nat
                                /\ ledger'[e].fail_count \in Nat
                                /\ ledger[e].fail_count <= ledger'[e].fail_count
                                /\ Finished(e) => Finished(e)'
<1> USE DEF IInv, TypeOK, GroupTypeOK, StreamTypeOK
<1>1. GroupTypeOK'
  BY GroupStep
<1>2. /\ delivered \in Nat /\ delivered' \in Nat
      /\ faults \in Nat /\ faults' \in Nat
      /\ \A e \in Events : ledger[e].fail_count \in Nat /\ ledger'[e].fail_count \in Nat
  BY <1>1, GroupAssumption DEF Row
<1>3. \/ UNCHANGED <<stream, delivered>>
      \/ Read
      \/ \E e \in Events \cup {Garbage} : XAdd(e)
  <2>1. ASSUME NEW w \in Workers, WorkerStep(w) PROVE UNCHANGED <<stream, delivered>> \/ Read
    BY <2>1 DEF WorkerStep, LoopStep, HandleStep, Begin, Ack, GetPending, Claim, Count, Check,
       _deliver, RecordOutcome, GiveUp, UNCHANGED_group
  <2> QED
    BY <2>1 DEF Next, EnvironmentStep, XAdd, Elapse, Crash, vars, groupVars
<1>4. delivered <= delivered' /\ \A m \in 1 .. delivered : stream'[m] = stream[m]
  <2>1. CASE Read
    <3>1. LastOfBatch >= delivered
      BY <1>2, GroupAssumption DEF LastOfBatch
    <3> QED
      BY <2>1, <3>1 DEF Read
  <2>2. ASSUME NEW e \in Events \cup {Garbage}, XAdd(e)
        PROVE  delivered <= delivered' /\ \A m \in 1 .. delivered : stream'[m] = stream[m]
    BY <1>2, <2>2 DEF XAdd
  <2> QED
    BY <1>2, <1>3, <2>1, <2>2
<1>5. faults <= faults'
  <2>1. Fault \/ faults' = faults
    BY DEF Next, WorkerStep, LoopStep, HandleStep, EnvironmentStep, Begin, Ack, Read, GetPending,
       Claim, Count, Check, _deliver, RecordOutcome, GiveUp, XAdd, Elapse, Crash, NoFault, vars,
       groupVars
  <2> QED
    BY <1>2, <2>1 DEF Fault
<1>6. \A e \in Events : /\ ledger[e].fail_count <= ledger'[e].fail_count
                        /\ Finished(e) => Finished(e)'
  <2>1. ASSUME NEW w \in Workers, RecordOutcome(w)
        PROVE  Marks(w)
    BY <2>1, RecordContract DEF Contract
  <2>2. ASSUME GiveUp
        PROVE  Marks("recoverer") /\ "recoverer" \in Workers
    BY <2>2, GiveUpContract DEF Contract, Workers
  <2>3. ASSUME NEW w \in Workers, Marks(w)
        PROVE  \A e \in Events : /\ ledger[e].fail_count <= ledger'[e].fail_count
                                 /\ Finished(e) => Finished(e)'
    BY <1>2, <2>3, MarksLedger
  <2>4. CASE CountFailure
    BY <1>2, <2>4, IncrementCounts DEF CountFailure, Finished
  <2>5. CASE UNCHANGED ledger
    BY <1>2, <2>5 DEF Finished
  <2> QED
    BY <2>1, <2>2, <2>3, <2>4, <2>5 DEF Next, WorkerStep, LoopStep, HandleStep, EnvironmentStep,
       Begin, Ack, Read, GetPending, Claim, Count, Check, _deliver, XAdd, Elapse, Crash, vars,
       groupVars
<1> QED
  BY <1>2, <1>4, <1>5, <1>6

\* The consumer is handed no delivered entry again, and does not come back to
\* one it has tried.
LEMMA UntriedShrinks ==
    ASSUME IInv, HandlesOnce, [Next]_vars
    PROVE  /\ HandlesOnce'
           /\ \A m \in 1 .. delivered : m \in Untried' => m \in Untried
           /\ _deliver("consumer") => cur["consumer"] \in Untried \ Untried'
<1> USE DEF IInv, TypeOK, GroupTypeOK, StreamTypeOK, TasksTypeOK, HandlesOnce, Untried
<1> DEFINE Goal == /\ HandlesOnce'
                   /\ \A m \in 1 .. delivered : m \in Untried' => m \in Untried
                   /\ _deliver("consumer") => cur["consumer"] \in Untried \ Untried'
<1>0. "consumer" \in Workers /\ "recoverer" \in Workers
  BY DEF Workers
<1>1. ASSUME UNCHANGED <<at["consumer"], cur["consumer"], todo["consumer"]>>,
             ~_deliver("consumer")
      PROVE  Goal
  BY <1>1
<1>2. ASSUME Begin("consumer") PROVE Goal
  BY <1>0, <1>2 DEF Begin, Working, FirstPlace, _deliver
<1>3. ASSUME Ack("consumer") PROVE Goal
  BY <1>0, <1>3 DEF Ack, Working, NextMessage, Abandon, _deliver
<1>4. ASSUME Read PROVE Goal
  <2>1. LastOfBatch \in delivered .. Len(stream)
    BY <1>4, GroupAssumption DEF Read, LastOfBatch
  <2> QED
    BY <1>0, <1>4, <2>1 DEF Read, Working, _deliver
<1>5. ASSUME Check("consumer") PROVE Goal
  BY <1>0, <1>5 DEF Check, Working, Goto, Raise, Abandon, _deliver
<1>6. ASSUME _deliver("consumer") PROVE Goal
  BY <1>0, <1>6 DEF _deliver, SmtpSend, Deliver, Working, Goto, Raise, Abandon
<1>7. ASSUME RecordOutcome("consumer") PROVE Goal
  BY <1>0, <1>7 DEF RecordOutcome, Working, Goto, Raise, Abandon, _deliver
<1>8. ASSUME WorkerStep("recoverer") PROVE Goal
  <2>1. UNCHANGED <<at["consumer"], cur["consumer"], todo["consumer"]>>
    BY <1>0, <1>8 DEF WorkerStep, LoopStep, HandleStep, Begin, Ack, GetPending, Claim, Count, Check,
       _deliver, SmtpSend, Deliver, RecordOutcome, GiveUp, Goto, Raise, NextMessage, Abandon
  <2>2. ~_deliver("consumer")
    BY <1>0, <1>8, <2>1 DEF WorkerStep, LoopStep, HandleStep, Begin, Ack, GetPending, Claim, Count, Check,
       _deliver, SmtpSend, Deliver, RecordOutcome, GiveUp, Goto, Raise, NextMessage, Abandon, Working
  <2> QED
    BY <1>1, <2>1, <2>2
<1>9. ASSUME EnvironmentStep PROVE Goal
  BY <1>0, <1>9 DEF EnvironmentStep, XAdd, Elapse, Crash, NoEntry, _deliver, SmtpSend, Deliver, Goto, Raise, Abandon, Working
<1>10. CASE UNCHANGED vars
  BY <1>0, <1>10 DEF vars, groupVars, _deliver, SmtpSend, Deliver, Goto, Raise, Abandon, Working
<1> QED
  BY <1>2, <1>3, <1>4, <1>5, <1>6, <1>7, <1>8, <1>9, <1>10
     DEF Next, WorkerStep, LoopStep, HandleStep, Workers

\* Tried entries are finitely many delivered ones.
LEMMA TriedFinite ==
    ASSUME delivered \in Nat, NEW e
    PROVE  IsFiniteSet(Tried(e)) /\ Cardinality(Tried(e)) \in Nat
<1>1. IsFiniteSet(1 .. delivered) /\ Tried(e) \in SUBSET (1 .. delivered)
  BY FS_Interval DEF Tried
<1> QED
  BY <1>1, FS_Subset, FS_CardinalityType

\* An entry that was tried stays tried, and each attempt of the consumer is at
\* another one.
LEMMA TriedGrows ==
    ASSUME IInv, HandlesOnce, [Next]_vars, NEW e \in Events
    PROVE  /\ Cardinality(Tried(e)) <= Cardinality(Tried(e)')
           /\ _deliver("consumer") /\ Event("consumer") = e =>
                Cardinality(Tried(e)) + 1 <= Cardinality(Tried(e)')
<1>1. /\ delivered \in Nat /\ delivered' \in Nat /\ delivered <= delivered'
      /\ \A m \in 1 .. delivered : stream'[m] = stream[m]
  BY GroupGrows
<1>2. /\ IsFiniteSet(Tried(e)) /\ Cardinality(Tried(e)) \in Nat
      /\ IsFiniteSet(Tried(e)') /\ Cardinality(Tried(e)') \in Nat
  <2>1. IsFiniteSet(1 .. delivered') /\ Tried(e)' \in SUBSET (1 .. delivered')
    BY <1>1, FS_Interval DEF Tried
  <2> QED
    BY <1>1, <2>1, TriedFinite, FS_Subset, FS_CardinalityType
<1>3. Tried(e) \subseteq Tried(e)'
  BY <1>1, UntriedShrinks DEF Tried, Entry
<1>4. ASSUME _deliver("consumer"), Event("consumer") = e
      PROVE  Cardinality(Tried(e)) + 1 <= Cardinality(Tried(e)')
  <2> DEFINE m == cur["consumer"]
  <2>1. m \in 1 .. delivered /\ m \in 1 .. delivered' /\ Entry(m) = e
    BY <1>1, <1>4 DEF _deliver, Working, Event, IInv, GroupInv, HoldsEntry, Holding, Workers
  <2>2. m \notin Tried(e) /\ m \in Tried(e)'
    BY <1>1, <1>4, <2>1, UntriedShrinks DEF Tried, Entry
  <2>3. Tried(e) \cup {m} \subseteq Tried(e)'
    BY <1>3, <2>2
  <2>4. Cardinality(Tried(e) \cup {m}) = Cardinality(Tried(e)) + 1
    BY <1>2, <2>2, FS_AddElement
  <2> QED
    BY <1>2, <2>3, <2>4, FS_Subset
<1> QED
  BY <1>2, <1>3, <1>4, FS_Subset

\* What pays for an email to e besides the tried entries.
Credit(e) == ledger[e].fail_count + faults + (IF Uncounted(e) THEN 1 ELSE 0)

\* A step of another actor, or a move of the recoverer from and to places where
\* it has nothing uncounted.
LEMMA CreditKept ==
    ASSUME IInv, [Next]_vars, NEW e \in Events,
           Uncounted(e) => Uncounted(e)'
    PROVE  Credit(e) <= Credit(e)'
  BY GroupGrows DEF Credit

\* What an attempt of the recoverer leaves uncounted is counted, or it ends in
\* a fault or with the event finished; a new attempt is paid for by itself.
LEMMA CreditGrows ==
    ASSUME IInv, [Next]_vars, NEW e \in Events
    PROVE  /\ Credit(e) <= Credit(e)'
           /\ _deliver("recoverer") /\ Event("recoverer") = e => Credit(e) + 1 <= Credit(e)'
<1> USE DEF IInv, TypeOK, GroupTypeOK, TasksTypeOK
<1> DEFINE Attempting == {"deliver", "record", "count"}
           Same == /\ at'["recoverer"] = at["recoverer"]
                   /\ Holding("recoverer") => Event("recoverer")' = Event("recoverer")
           Paid == Credit(e) <= Credit(e)'
<1>0. "consumer" \in Workers /\ "recoverer" \in Workers
  BY DEF Workers
<1>1. /\ faults \in Nat /\ faults' \in Nat /\ faults <= faults'
      /\ ledger[e].fail_count \in Nat /\ ledger'[e].fail_count \in Nat
      /\ ledger[e].fail_count <= ledger'[e].fail_count
      /\ Finished(e) => Finished(e)'
  BY GroupGrows
<1>2. ASSUME Same PROVE Paid
  BY <1>1, <1>2, CreditKept DEF Uncounted, Holding
<1>3. ASSUME Fault PROVE Paid
  BY <1>1, <1>3 DEF Credit, Fault
<1>4. ASSUME cur'["recoverer"] = cur["recoverer"], Holding("recoverer")
      PROVE  Event("recoverer")' = Event("recoverer")
  <2>1. cur["recoverer"] \in 1 .. delivered
    BY <1>0, <1>4 DEF GroupInv, HoldsEntry
  <2> QED
    BY <1>4, <2>1, GroupGrows DEF Event, Entry
<1>5. ASSUME at["recoverer"] \notin Attempting, at'["recoverer"] \notin Attempting PROVE Paid
  BY <1>1, <1>5, CreditKept DEF Uncounted
<1>6. ASSUME Check("recoverer") PROVE Paid
  <2>1. at["recoverer"] = "handle" /\ cur' = cur /\ Event("recoverer")' = Event("recoverer")
    BY <1>0, <1>4, <1>6 DEF Check, Working, Raise, Goto, Holding
  <2>2. Uncounted(e) => Finished(e)
    BY <2>1 DEF Uncounted
  <2>3. at'["recoverer"] = "deliver" => ~Finished(Event("recoverer"))
    BY <1>0, <1>6 DEF Check, Finished, Raise, Goto
  <2> QED
    BY <1>1, <2>1, <2>2, <2>3, CreditKept DEF Uncounted
<1>7. ASSUME _deliver("recoverer")
      PROVE  Paid /\ (Event("recoverer") = e => Credit(e) + 1 <= Credit(e)')
  <2>1. /\ at["recoverer"] = "deliver" /\ at'["recoverer"] \in {"record", "count"}
        /\ Event("recoverer")' = Event("recoverer")
    BY <1>0, <1>4, <1>7 DEF _deliver, SmtpSend, Deliver, Working, Raise, Goto, Holding
  <2> QED
    BY <1>1, <2>1 DEF Uncounted, Credit
<1>8. ASSUME RecordOutcome("recoverer") PROVE Paid
  <2>1. at["recoverer"] = "record" /\ Event("recoverer")' = Event("recoverer")
    BY <1>0, <1>4, <1>8 DEF RecordOutcome, Working, Raise, Goto, Holding
  <2>2. CASE Raise("recoverer")
    <3>1. at'["recoverer"] = "count"
      BY <1>0, <2>2 DEF Raise, Goto
    <3> QED
      BY <1>1, <2>1, <3>1, CreditKept DEF Uncounted
  <2>3. CASE Goto("recoverer", "ack")
    <3>1. at'["recoverer"] = "ack"
      BY <1>0, <2>3 DEF Goto
    <3>2. CommitOutcome("recoverer")
      BY <1>0, <1>8, <3>1 DEF RecordOutcome, Raise, Goto
    <3>3. Event("recoverer") \in Events /\ ledger[Event("recoverer")] \in Row
      BY <1>0, <2>1, GroupAssumption DEF GroupInv, HoldsEntry
    <3>4. Event("recoverer") = e => Finished(e)'
      BY <3>2, <3>3, LedgerTyped DEF CommitOutcome, Finished, is_processed, Terminal
    <3> QED
      BY <1>1, <2>1, <3>1, <3>4, CreditKept DEF Uncounted
  <2> QED
    BY <1>8, <2>2, <2>3 DEF RecordOutcome
<1>9. ASSUME Count PROVE Paid
  <2> DEFINE d == Event("recoverer")
  <2>1. at["recoverer"] = "count" /\ d \in Events /\ ledger[d] \in Row
    BY <1>0, <1>9, GroupAssumption DEF Count, Working, GroupInv, HoldsEntry
  <2>2. CASE Fault
    BY <1>3, <2>2
  <2>3. CASE ~Fault /\ e # d
    <3>1. at'["recoverer"] \in {"ack", "giveup", "loop"}
      BY <1>0, <1>9, <2>3 DEF Count, Goto, NextMessage
    <3> QED
      BY <1>1, <2>1, <2>3, <3>1, CreditKept DEF Uncounted
  <2>4. CASE ~Fault /\ e = d
    <3>1. ledger'[d] = increment_fail_count(ledger[d])
      BY <1>9, <2>1, <2>4 DEF Count, CountFailure
    <3>2. CASE is_processed(ledger[d])
      <4>1. at'["recoverer"] \in {"ack", "giveup", "loop"}
        BY <1>0, <1>9, <2>4 DEF Count, Goto, NextMessage
      <4>2. Finished(e)'
        BY <1>1, <2>4, <3>2 DEF Finished
      <4> QED
        BY <4>1, <4>2, CreditKept DEF Uncounted
    <3>3. CASE ~is_processed(ledger[d])
      BY <1>1, <2>1, <2>4, <3>1, <3>3, IncrementCounts DEF Credit
    <3> QED
      BY <3>2, <3>3
  <2> QED
    BY <2>2, <2>3, <2>4
<1>10. ASSUME LoopStep("recoverer"), ~Count PROVE Paid
  <2>1. at["recoverer"] \in {"loop", "claim", "ack"} /\ at'["recoverer"] \in {"loop", "claim", "handle", "ack"}
    BY <1>0, <1>10 DEF LoopStep, Begin, FirstPlace, Ack, GetPending, Claim, Working, NextMessage, Abandon
  <2> QED
    BY <1>5, <2>1
<1>11. ASSUME GiveUp PROVE Paid
  BY <1>0, <1>5, <1>11 DEF GiveUp, Working, Goto, NextMessage
<1>12. ASSUME WorkerStep("consumer") PROVE Paid /\ ~_deliver("recoverer")
  <2>1. at'["recoverer"] = at["recoverer"] /\ cur'["recoverer"] = cur["recoverer"]
    BY <1>0, <1>12 DEF WorkerStep, LoopStep, HandleStep, Begin, Ack, Read, Check, _deliver, SmtpSend,
       Deliver, RecordOutcome, Goto, Raise, NextMessage, Abandon
  <2>2. ~_deliver("recoverer")
    BY <1>0, <2>1 DEF _deliver, SmtpSend, Deliver, Working, Raise, Goto
  <2> QED
    BY <1>2, <1>4, <2>1, <2>2
<1>13. ASSUME EnvironmentStep \/ UNCHANGED vars PROVE Paid /\ ~_deliver("recoverer")
  <2>1. CASE Crash
    BY <1>0, <1>3, <2>1 DEF Crash, _deliver, SmtpSend, Deliver, Working, Raise, Goto
  <2>2. CASE ~Crash
    <3>1. at' = at /\ cur' = cur
      BY <1>13, <2>2 DEF EnvironmentStep, XAdd, Elapse, vars, groupVars
    <3> QED
      BY <1>0, <1>2, <1>4, <3>1 DEF _deliver, SmtpSend, Deliver, Working, Raise, Goto
  <2> QED
    BY <2>1, <2>2
<1>14. ASSUME WorkerStep("recoverer"), ~_deliver("recoverer") PROVE Paid
  BY <1>6, <1>8, <1>9, <1>10, <1>11, <1>14 DEF WorkerStep, HandleStep
<1> QED
  BY <1>7, <1>12, <1>13, <1>14 DEF Next, Workers

\* An email leaves in a task's _deliver() only.
LEMMA SendsOne ==
    ASSUME IInv, [Next]_vars, NEW e \in Events
    PROVE  /\ sent[e] \in Nat /\ sent'[e] \in Nat
           /\ \/ sent'[e] <= sent[e]
              \/ /\ sent'[e] = sent[e] + 1
                 /\ \E w \in Workers : _deliver(w) /\ Event(w) = e
<1>1. sent \in [Events -> Nat] /\ sent' \in [Events -> Nat]
  BY DeliveryTypeStep DEF IInv, TypeOK, DeliveryTypeOK
<1>2. ASSUME NEW w \in Workers, _deliver(w)
      PROVE  \/ sent'[e] = sent[e]
             \/ sent'[e] = sent[e] + 1 /\ Event(w) = e
  <2>1. sent' = sent \/ sent' = [sent EXCEPT ![Event(w)] = sent[Event(w)] + 1]
    BY <1>2 DEF _deliver, SmtpSend, Send
  <2> QED
    BY <1>1, <2>1
<1>3. (\E w \in Workers : _deliver(w)) \/ UNCHANGED sent
  BY DEF Next, WorkerStep, HandleStep, Check, RecordOutcome, GiveUp, deliveryVars, vars
<1> QED
  BY <1>1, <1>2, <1>3

LEMMA SendInvInit == Init => SendInv
<1> SUFFICES ASSUME Init PROVE SendInv
  OBVIOUS
<1>1. \A e \in Events : /\ sent[e] = 0
                        /\ ledger[e].fail_count = 0
                        /\ Cardinality(Tried(e)) \in Nat
  BY TriedFinite DEF Init, GroupInit, NoRow
<1>2. SendsAccounted
  BY <1>1 DEF Init, GroupInit, SendsAccounted
<1> QED
  BY <1>2 DEF Init, GroupInit, SendInv, HandlesOnce, Workers

LEMMA SendInvStep == IInv /\ SendInv /\ [Next]_vars => SendInv'
<1> SUFFICES ASSUME IInv, SendInv, [Next]_vars PROVE SendInv'
  OBVIOUS
<1>1. ASSUME NEW e \in Events PROVE sent'[e] <= Cardinality(Tried(e)') + Credit(e)'
  <2>1. sent[e] <= Cardinality(Tried(e)) + Credit(e)
    <3>1. ledger[e].fail_count \in Nat /\ faults \in Nat /\ Cardinality(Tried(e)) \in Nat
      BY GroupGrows, TriedFinite
    <3> QED
      BY <3>1 DEF SendInv, SendsAccounted, Credit
  <2>2. /\ Cardinality(Tried(e)) \in Nat /\ Cardinality(Tried(e)') \in Nat
        /\ Credit(e) \in Nat /\ Credit(e)' \in Nat
    <3>1. /\ delivered \in Nat /\ delivered' \in Nat
          /\ Credit(e) \in Nat /\ Credit(e)' \in Nat
      BY GroupGrows DEF Credit
    <3>2. IsFiniteSet(1 .. delivered') /\ Tried(e)' \in SUBSET (1 .. delivered')
      BY <3>1, FS_Interval DEF Tried
    <3> QED
      BY <3>1, <3>2, TriedFinite, FS_Subset, FS_CardinalityType
  <2> HIDE DEF Credit
  <2> QED
    BY <1>1, <2>1, <2>2, SendsOne, TriedGrows, CreditGrows DEF SendInv, Workers
<1>2. SendsAccounted'
  <2>1. \A e \in Events : ledger'[e].fail_count \in Nat /\ faults' \in Nat /\ Cardinality(Tried(e)') \in Nat
    <3>1. delivered' \in Nat /\ faults' \in Nat /\ \A e \in Events : ledger'[e].fail_count \in Nat
      BY GroupGrows
    <3>2. ASSUME NEW e \in Events PROVE Cardinality(Tried(e)') \in Nat
      <4>1. IsFiniteSet(1 .. delivered') /\ Tried(e)' \in SUBSET (1 .. delivered')
        BY <3>1, FS_Interval DEF Tried
      <4> QED
        BY <4>1, FS_Subset, FS_CardinalityType
    <3> QED
      BY <3>1, <3>2
  <2> QED
    BY <1>1, <2>1 DEF SendsAccounted, Credit
<1> QED
  BY <1>2, UntriedShrinks DEF SendInv

\* A recipient gets an email at most once per entry handed to the consumer, per
\* counted retry and per fault, and once for the attempt that succeeded.
THEOREM SendLimit == Spec => []SendsBounded
<1>1. IInv /\ SendInv => SendsBounded
  <2> SUFFICES ASSUME IInv, SendInv, NEW e \in Events
               PROVE  sent[e] <= Cardinality({m \in 1 .. delivered : Entry(m) = e})
                                   + ledger[e].fail_count + faults + 1
    BY DEF SendsBounded
  <2> DEFINE Handed == {m \in 1 .. delivered : Entry(m) = e}
  <2>1. delivered \in Nat /\ faults \in Nat /\ ledger[e].fail_count \in Nat /\ sent[e] \in Nat
    BY GroupAssumption DEF IInv, TypeOK, GroupTypeOK, StreamTypeOK, Row
  <2>2. IsFiniteSet(1 .. delivered) /\ Handed \in SUBSET (1 .. delivered)
    BY <2>1, FS_Interval
  <2>3. Tried(e) \in SUBSET Handed /\ IsFiniteSet(Handed) /\ Cardinality(Handed) \in Nat
    BY <2>2, FS_Subset, FS_CardinalityType DEF Tried
  <2>4. Cardinality(Tried(e)) \in Nat /\ Cardinality(Tried(e)) <= Cardinality(Handed)
    BY <2>1, <2>3, TriedFinite, FS_Subset
  <2> QED
    BY <2>1, <2>3, <2>4 DEF SendInv, SendsAccounted
<1> QED
  BY <1>1, Invariant, SendInvInit, SendInvStep, PTL DEF Spec
=============================================================================
