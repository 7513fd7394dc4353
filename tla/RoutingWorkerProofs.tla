------------------------ MODULE RoutingWorkerProofs ------------------------
(***************************************************************************)
(* Proofs about RoutingWorker, for every set of events and channels, batch *)
(* size, retry limit and number of entries and faults.  The group's share  *)
(* of every step is GroupWorkerProofs.                                     *)
(***************************************************************************)
EXTENDS RoutingWorker, GroupWorkerProofs

\* The component's share of the type.
RoutingTypeOK ==
    /\ enabled \in [Channels -> BOOLEAN]
    /\ route \in [Events -> Decisions \cup {NoRoute}]
    /\ outbox \in [Events -> [RoutingEvents -> Nat]]
    /\ fail_reason \in [Workers -> Answers]
    /\ answers \in [Events -> SUBSET Answers]

\* The event a task works on, and the place it is at.
LEMMA Held ==
    ASSUME IInv, NEW w \in Workers, at[w] \in {"handle", "decide", "record", "giveup"}
    PROVE  Event(w) \in Events /\ Event(w) \in Ours /\ cur[w] \in 1 .. delivered
  BY RoutingAssumption DEF IInv, GroupInv, HoldsEntry, Holding

----------------------------------------------------------------------------
(* handle() and give_up() keep the contract of RecoverableConsumer.        *)

LEMMA CheckContract ==
    ASSUME IInv, NEW w \in Workers, Check(w)
    PROVE  Contract(w)
  BY Held DEF Check, Contract, Marks, Returns, Working, HandlePlaces, Finished

LEMMA DecideContract ==
    ASSUME IInv, NEW w \in Workers, _decide(w)
    PROVE  Contract(w)
  BY Held DEF _decide, Unavailable, Unusable, Contract, Marks, Returns, Working, HandlePlaces, NoFault

LEMMA RecordContract ==
    ASSUME IInv, NEW w \in Workers, RecordDecision(w)
    PROVE  Contract(w)
<1>1. at[w] = "record" /\ Event(w) \in Ours /\ Event(w) \in Events /\ ledger[Event(w)] \in Row
  BY Held DEF RecordDecision, Working, IInv, TypeOK, GroupTypeOK
<1>2. CommitDecision(w) => is_processed(ledger'[Event(w)])
  BY <1>1, LedgerTyped DEF CommitDecision, is_processed, Terminal, IInv, TypeOK, GroupTypeOK
<1> QED
  BY <1>1, <1>2 DEF RecordDecision, CommitDecision, RolledBack, Contract, Marks, Returns,
     HandlePlaces, NoFault

LEMMA GiveUpContract ==
    ASSUME IInv, GiveUp
    PROVE  Contract("recoverer")
<1> DEFINE e == Event("recoverer")
<1>1. at["recoverer"] = "giveup" /\ e \in Ours /\ e \in Events /\ ledger[e] \in Row
  BY Held DEF GiveUp, Working, IInv, TypeOK, GroupTypeOK, Workers
<1>2. CommitGiveUp(e) => is_processed(ledger'[e])
  BY <1>1, LedgerTyped DEF CommitGiveUp, is_processed, Terminal, IInv, TypeOK, GroupTypeOK
<1>3. UniqueViolation(e) => Finished(e)
  BY <1>1 DEF IInv, OneDecision
<1> QED
  BY <1>1, <1>2, <1>3 DEF GiveUp, CommitGiveUp, RolledBack, Contract, Marks, Returns, HandlePlaces,
     NoFault

LEMMA SetEnabledKeepsGroup ==
    ASSUME GroupTypeOK, GroupInv, UNCHANGED groupVars
    PROVE  GroupTypeOK' /\ GroupInv'
  BY DEF groupVars, GroupTypeOK, StreamTypeOK, TasksTypeOK, GroupInv, HoldsEntry, AcksSettled,
     NothingLost, GivesUpExhausted, GiveUpAfterMaxRetries, AttemptsLeft, RetriesBounded, Holding,
     Acked, Settled, Finished, GivingUp, Working, Event, Entry

LEMMA GroupStep == ASSUME IInv, [Next]_vars PROVE GroupTypeOK' /\ GroupInv'
<1>1. GroupTypeOK /\ GroupInv
  BY DEF IInv, TypeOK
<1>2. ASSUME NEW w \in Workers, LoopStep(w) PROVE GroupTypeOK' /\ GroupInv'
  BY <1>1, <1>2, LoopTyped, LoopKeepsInv
<1>3. ASSUME NEW w \in Workers, HandleStep(w) PROVE GroupTypeOK' /\ GroupInv'
  BY <1>1, <1>3, CheckContract, DecideContract, RecordContract, GiveUpContract, ContractTyped,
     ContractKeepsInv DEF HandleStep
<1>4. CASE EnvironmentStep
  BY <1>1, <1>4, EnvironmentTyped, EnvironmentKeepsInv
<1>5. CASE UNCHANGED groupVars
  BY <1>1, <1>5, SetEnabledKeepsGroup
<1> QED
  BY <1>2, <1>3, <1>4, <1>5 DEF Next, WorkerStep, set_enabled, vars

----------------------------------------------------------------------------
(* The decision.                                                           *)

\* One event's part of OneDecision.
OneDecisionOf(e) ==
    /\ Finished(e) <=> UniqueViolation(e)
    /\ ledger[e].status = "FAILED_PERMANENT" <=> route[e] = "max_retries_exceeded"
    /\ \A t \in RoutingEvents :
         outbox[e][t] = IF UniqueViolation(e) /\ t = RoutingEvent(route[e]) THEN 1 ELSE 0

\* Recording a decision for an event that has none, with the mark that goes
\* with it, leaves exactly one.
LEMMA RecordingOnce ==
    ASSUME TypeOK, OneDecision, NEW e \in Events, NEW reason \in Decisions,
           _record_decision(e, reason),
           \/ /\ reason # "max_retries_exceeded"
              /\ ledger' = [ledger EXCEPT ![e] = mark_processed(@)]
           \/ /\ reason = "max_retries_exceeded"
              /\ ledger' = [ledger EXCEPT ![e] = mark_failed_permanent(@)]
    PROVE  OneDecision'
<1>1. ledger[e] \in Row /\ ledger \in [Events -> Row]
  BY DEF TypeOK, GroupTypeOK
<1>2. /\ route[e] = NoRoute
      /\ route' = [route EXCEPT ![e] = reason]
      /\ outbox' = [outbox EXCEPT ![e] = [outbox[e] EXCEPT ![RoutingEvent(reason)] =
                                             outbox[e][RoutingEvent(reason)] + 1]]
  BY DEF _record_decision, UniqueViolation
<1>3. RoutingEvent(reason) \in RoutingEvents /\ reason # NoRoute
  BY DEF RoutingEvent, RoutingEvents, Decisions, FailReasons, NoReason, NoRoute
<1>4. OneDecisionOf(e)'
  <2>1. Finished(e)'
    BY <1>1, LedgerTyped DEF Finished, is_processed, Terminal
  <2>2. (ledger[e].status = "FAILED_PERMANENT")' <=> reason = "max_retries_exceeded"
    BY <1>1, LedgerTyped
  <2>3. route'[e] = reason
    BY <1>2 DEF TypeOK
  <2>4. ASSUME NEW t \in RoutingEvents
        PROVE  outbox'[e][t] = IF t = RoutingEvent(reason) THEN 1 ELSE 0
    <3>1. outbox[e][t] = 0 /\ outbox[e] \in [RoutingEvents -> Nat]
      BY <1>2 DEF OneDecision, UniqueViolation, TypeOK
    <3> QED
      BY <1>2, <1>3, <3>1 DEF TypeOK
  <2> QED
    BY <1>3, <2>1, <2>2, <2>3, <2>4 DEF OneDecisionOf, UniqueViolation, RoutingEvent
<1>5. ASSUME NEW d \in Events, d # e PROVE OneDecisionOf(d)'
  <2>1. UNCHANGED <<ledger[d], route[d], outbox[d]>>
    BY <1>1, <1>2, <1>5 DEF TypeOK
  <2> QED
    BY <2>1 DEF OneDecision, OneDecisionOf, Finished, UniqueViolation
<1> QED
  BY <1>4, <1>5 DEF OneDecision, OneDecisionOf

\* A step that records nothing keeps the decisions there are.
LEMMA NotRecording ==
    ASSUME TypeOK, OneDecision, UNCHANGED <<route, outbox>>,
           \A e \in Events : \/ ledger'[e] = ledger[e]
                             \/ ~Finished(e) /\ ~Finished(e)' /\ ledger'[e].status = "FAILING"
    PROVE  OneDecision'
  BY DEF OneDecision, Finished, UniqueViolation, is_processed, Terminal

\* Every step, as far as the decisions are concerned: a task records the one it
\* was told, the recoverer records that it gave up, or nothing is recorded.
LEMMA StepRecords ==
    ASSUME IInv, [Next]_vars
    PROVE  \/ \E w \in Workers :
                 at[w] = "record" /\ CommitDecision(w) /\ UNCHANGED <<stream, delivered, pel, answers>>
           \/ /\ at["recoverer"] = "giveup" /\ CommitGiveUp(Event("recoverer"))
              /\ UNCHANGED <<stream, delivered, pel, answers>>
           \/ /\ UNCHANGED <<route, outbox>>
              /\ \A e \in Events : \/ ledger'[e] = ledger[e]
                                   \/ ~Finished(e) /\ ~Finished(e)' /\ ledger'[e].status = "FAILING"
<1> DEFINE Nothing == /\ UNCHANGED <<route, outbox>>
                      /\ \A e \in Events : \/ ledger'[e] = ledger[e]
                                           \/ /\ ~Finished(e) /\ ~Finished(e)'
                                              /\ ledger'[e].status = "FAILING"
<1>1. ASSUME NEW w \in Workers, LoopStep(w), UNCHANGED routingVars PROVE Nothing
  <2>1. CountFailure => \A e \in Events : \/ ledger'[e] = ledger[e]
                                          \/ /\ ~Finished(e) /\ ~Finished(e)'
                                             /\ ledger'[e].status = "FAILING"
    BY IncrementCounts DEF CountFailure, Finished, IInv, TypeOK, GroupTypeOK
  <2> QED
    BY <1>1, <2>1 DEF LoopStep, Begin, Ack, Read, GetPending, Claim, Count, routingVars
<1>2. ASSUME NEW w \in Workers, RecordDecision(w), ~Nothing
      PROVE  at[w] = "record" /\ CommitDecision(w) /\ UNCHANGED <<stream, delivered, pel, answers>>
  BY <1>2 DEF RecordDecision, RolledBack, Working, UNCHANGED_group
<1>3. ASSUME GiveUp, ~Nothing
      PROVE  /\ at["recoverer"] = "giveup" /\ CommitGiveUp(Event("recoverer"))
             /\ UNCHANGED <<stream, delivered, pel, answers>>
  BY <1>3 DEF GiveUp, RolledBack, Working, UNCHANGED_group
<1>4. CASE UNCHANGED <<ledger, route, outbox>>
  BY <1>4
<1> QED
  BY <1>1, <1>2, <1>3, <1>4 DEF Next, WorkerStep, HandleStep, EnvironmentStep, XAdd, Elapse, Crash,
     Check, _decide, set_enabled, vars, groupVars, routingVars

\* What a recorded decision says is what the task was told.
LEMMA RecordedDecision ==
    ASSUME IInv, NEW w \in Workers, at[w] = "record"
    PROVE  /\ Event(w) \in Ours /\ Event(w) \in Events
           /\ fail_reason[w] \in Decisions /\ fail_reason[w] # "max_retries_exceeded"
           /\ fail_reason[w] \in answers[Event(w)]
  BY Held DEF IInv, TypeOK, RecordsAnswer, Answers, Decisions, FailReasons, NoReason

LEMMA DecisionStep == ASSUME IInv, [Next]_vars PROVE OneDecision'
<1>1. ASSUME NEW w \in Workers, at[w] = "record", CommitDecision(w) PROVE OneDecision'
  BY <1>1, RecordedDecision, RecordingOnce DEF CommitDecision, IInv
<1>2. ASSUME at["recoverer"] = "giveup", CommitGiveUp(Event("recoverer")) PROVE OneDecision'
  <2>1. Event("recoverer") \in Events /\ "max_retries_exceeded" \in Decisions
    BY <1>2, Held DEF Workers, Decisions, FailReasons
  <2> QED
    BY <1>2, <2>1, RecordingOnce DEF CommitGiveUp, IInv
<1> QED
  BY <1>1, <1>2, StepRecords, NotRecording DEF IInv

----------------------------------------------------------------------------
(* Types, and what a decision rests on.                                    *)

\* An event that names a channel is answered, truthfully.
LEMMA AnswerTrue ==
    ASSUME NEW e \in Events, ChannelOf[e] # Missing, enabled \in [Channels -> BOOLEAN]
    PROVE  Answer(e) \in Answers /\ (Answer(e) = NoReason => ChannelOf[e] \in Channels)
<1>1. ChannelOf[e] \in Channels \/ ChannelOf[e] = Unconfigured
  BY RoutingAssumption
<1>2. CASE ChannelOf[e] = Unconfigured
  <2>1. ChannelOf[e] \notin Channels
    BY <1>2, RoutingAssumption
  <2>2. Answer(e) = "unknown_channel"
    BY <1>2, <2>1 DEF Answer
  <2> QED
    BY <2>2 DEF Answers, NoReason
<1>3. CASE ChannelOf[e] \in Channels
  <2>1. ChannelOf[e] # Unconfigured
    BY <1>3, RoutingAssumption
  <2>2. Answer(e) = IF enabled[ChannelOf[e]] THEN NoReason ELSE "channel_disabled"
    BY <1>3, <2>1 DEF Answer
  <2> QED
    BY <1>3, <2>2 DEF Answers, NoReason
<1> QED
  BY <1>1, <1>2, <1>3

\* The steps of _decide(): an answer is kept and history only grows.
LEMMA DecideStep ==
    ASSUME IInv, NEW w \in Workers, _decide(w)
    PROVE  /\ fail_reason' \in [Workers -> Answers]
           /\ answers' \in [Events -> SUBSET Answers]
           /\ AnswersTrue'
           /\ \A e \in Events : answers[e] \subseteq answers'[e]
           /\ \A v \in Workers : v # w => fail_reason'[v] = fail_reason[v]
           /\ at'[w] = "record" => fail_reason'[w] \in answers'[Event(w)]
           /\ at'[w] \in {"decide", "record"} => ChannelOf[Event(w)] # Missing
<1>1. at[w] = "decide" /\ Event(w) \in Events /\ ChannelOf[Event(w)] # Missing
  BY Held DEF _decide, Working, IInv, NamesChannel
<1>2. Answer(Event(w)) \in Answers /\ (Answer(Event(w)) = NoReason => ChannelOf[Event(w)] \in Channels)
  BY <1>1, AnswerTrue DEF IInv, TypeOK
<1>3. /\ fail_reason \in [Workers -> Answers] /\ answers \in [Events -> SUBSET Answers]
      /\ at \in [Workers -> Places]
      /\ AnswersTrue
  BY DEF IInv, TypeOK, GroupTypeOK, TasksTypeOK
<1>4. CASE /\ fail_reason' = [fail_reason EXCEPT ![w] = Answer(Event(w))]
           /\ answers' = [answers EXCEPT ![Event(w)] = @ \cup {Answer(Event(w))}]
  BY <1>1, <1>2, <1>3, <1>4 DEF AnswersTrue
<1>5. CASE Unavailable(w) \/ Unusable(w)
  <2>1. at'[w] \in {"loop", "count"} /\ UNCHANGED <<fail_reason, answers>>
    BY <1>3, <1>5 DEF Unavailable, Unusable, NotHandled, Raise, NextMessage, Abandon, Goto
  <2> QED
    BY <1>3, <2>1 DEF AnswersTrue
<1> QED
  BY <1>4, <1>5 DEF _decide

LEMMA RoutingTypeStep == ASSUME IInv, [Next]_vars PROVE RoutingTypeOK'
<1> USE DEF RoutingTypeOK
<1>1. RoutingTypeOK
  BY DEF IInv, TypeOK
<1>2. ASSUME NEW e \in Events, NEW reason \in Decisions, _record_decision(e, reason)
      PROVE  route' \in [Events -> Decisions \cup {NoRoute}] /\ outbox' \in [Events -> [RoutingEvents -> Nat]]
  <2>1. RoutingEvent(reason) \in RoutingEvents
    BY DEF RoutingEvent, RoutingEvents
  <2> QED
    BY <1>1, <1>2, <2>1 DEF _record_decision
<1>3. route' \in [Events -> Decisions \cup {NoRoute}] /\ outbox' \in [Events -> [RoutingEvents -> Nat]]
  <2>1. "max_retries_exceeded" \in Decisions /\ "recoverer" \in Workers
    BY DEF Decisions, FailReasons, Workers
  <2> QED
    BY <1>1, <1>2, <2>1, Held, StepRecords, RecordedDecision DEF CommitDecision, CommitGiveUp
<1>4. ASSUME NEW w \in Workers, _decide(w) PROVE RoutingTypeOK'
  BY <1>1, <1>3, <1>4, DecideStep DEF _decide
<1>5. ASSUME NEW name \in Channels, NEW b \in BOOLEAN, set_enabled(name, b) PROVE RoutingTypeOK'
  BY <1>1, <1>5 DEF set_enabled
<1>6. CASE UNCHANGED <<enabled, fail_reason, answers>>
  BY <1>1, <1>3, <1>6
<1>7. ASSUME NEW w \in Workers, HandleStep(w) PROVE RoutingTypeOK'
  BY <1>4, <1>6, <1>7 DEF HandleStep, Check, RecordDecision, GiveUp, routingVars
<1> QED
  BY <1>5, <1>6, <1>7 DEF Next, WorkerStep, routingVars, vars

\* One task's parts of RecordsAnswer and NamesChannel.
TaskAnswered(w) ==
    /\ at[w] = "record" => fail_reason[w] \in answers[Event(w)]
    /\ at[w] \in {"decide", "record"} => ChannelOf[Event(w)] # Missing

\* They survive a step in which the task comes to neither place.
LEMMA StillAnswered ==
    ASSUME IInv, NEW w \in Workers,
           at'[w] \in {"decide", "record"} => at'[w] = at[w] /\ cur'[w] = cur[w],
           fail_reason'[w] = fail_reason[w],
           \A m \in 1 .. delivered : stream'[m] = stream[m],
           \A e \in Events : answers[e] \subseteq answers'[e]
    PROVE  TaskAnswered(w)'
<1> SUFFICES ASSUME at'[w] \in {"decide", "record"}
             PROVE  TaskAnswered(w)'
  BY DEF TaskAnswered
<1>1. at'[w] = at[w] /\ Event(w) \in Events /\ Event(w)' = Event(w)
  BY Held DEF Event, Entry
<1> QED
  BY <1>1 DEF TaskAnswered, IInv, RecordsAnswer, NamesChannel

LEMMA AnsweredStep == ASSUME IInv, [Next]_vars PROVE RecordsAnswer' /\ NamesChannel' /\ AnswersTrue'
<1> USE DEF TaskAnswered
<1>1. at \in [Workers -> Places] /\ \A w \in Workers : TaskAnswered(w)
  BY DEF IInv, TypeOK, GroupTypeOK, TasksTypeOK, RecordsAnswer, NamesChannel
<1>2. ASSUME NEW w \in Workers, _decide(w)
      PROVE  (\A v \in Workers : TaskAnswered(v)') /\ AnswersTrue'
  <2>1. (UNCHANGED <<stream, delivered>> /\ Event(w)' = Event(w)) \/ at'[w] \notin {"decide", "record"}
    BY <1>1, <1>2 DEF _decide, UNCHANGED_group, Unavailable, Unusable, NotHandled, Raise, NextMessage, Abandon,
       Goto, Event, Entry
  <2>2. ASSUME NEW v \in Workers, v # w PROVE TaskAnswered(v)'
    <3>1. at'[v] = at[v] /\ cur'[v] = cur[v]
      BY <1>2, <2>2, DecideContract, ContractMoves, OtherTaskHolds
         DEF IInv, TypeOK, GroupInv, Contract
    <3>2. stream' = stream
      BY <1>2 DEF _decide, UNCHANGED_group
    <3> QED
      BY <1>2, <2>2, <3>1, <3>2, DecideStep, StillAnswered
  <2>3. TaskAnswered(w)'
    BY <1>2, <2>1, DecideStep
  <2> QED
    BY <1>2, <2>2, <2>3, DecideStep
<1>3. ASSUME NEW w \in Workers, Check(w)
      PROVE  (\A v \in Workers : TaskAnswered(v)') /\ AnswersTrue'
  <2>1. UNCHANGED <<stream, fail_reason, answers>>
    BY <1>3 DEF Check, UNCHANGED_group, routingVars
  <2>2. ASSUME NEW v \in Workers, v # w PROVE TaskAnswered(v)'
    <3>1. at'[v] = at[v] /\ cur'[v] = cur[v]
      BY <1>3, <2>2, CheckContract, ContractMoves, OtherTaskHolds
         DEF IInv, TypeOK, GroupInv, Contract
    <3> QED
      BY <2>1, <2>2, <3>1, StillAnswered
  <2>3. TaskAnswered(w)'
    BY <1>1, <1>3, <2>1 DEF Check, Goto, Raise, Abandon, Event, Entry
  <2> QED
    BY <2>1, <2>2, <2>3 DEF IInv, AnswersTrue
<1>4. ASSUME UNCHANGED <<fail_reason, answers>>,
             \A m \in 1 .. delivered : stream'[m] = stream[m],
             \A w \in Workers : at'[w] \in {"decide", "record"} => at'[w] = at[w] /\ cur'[w] = cur[w]
      PROVE  (\A v \in Workers : TaskAnswered(v)') /\ AnswersTrue'
  BY <1>4, StillAnswered DEF IInv, AnswersTrue
<1>5. ASSUME NEW w \in Workers, RecordDecision(w) \/ GiveUp
      PROVE  (\A v \in Workers : TaskAnswered(v)') /\ AnswersTrue'
  <2>1. UNCHANGED <<stream, fail_reason, answers>>
    BY <1>5 DEF RecordDecision, GiveUp, UNCHANGED_group
  <2>2. \E x \in Workers, place \in {"ack", "count", "loop"} : at' = [at EXCEPT ![x] = place]
    BY <1>5 DEF RecordDecision, GiveUp, Goto, Raise, NextMessage, Abandon, Workers
  <2>3. ASSUME NEW v \in Workers, at'[v] \in {"decide", "record"}
        PROVE  at'[v] = at[v] /\ cur'[v] = cur[v]
    <3>1. PICK x \in Workers, place \in {"ack", "count", "loop"} : at' = [at EXCEPT ![x] = place]
      BY <2>2
    <3>2. v # x /\ at'[v] = at[v]
      BY <1>1, <2>3, <3>1
    <3>3. CASE RecordDecision(w)
      <4>1. w # v
        BY <1>1, <2>3, <3>3 DEF RecordDecision, Goto, Raise, Abandon
      <4> QED
        BY <1>1, <3>2, <3>3, <4>1 DEF RecordDecision, Goto, Raise, Abandon, IInv, TypeOK, GroupTypeOK, TasksTypeOK
    <3>4. CASE GiveUp
      <4>1. "recoverer" # v
        BY <1>1, <2>3, <3>4 DEF GiveUp, Goto, NextMessage
      <4> QED
        BY <1>1, <3>2, <3>4, <4>1 DEF GiveUp, Goto, NextMessage, IInv, TypeOK, GroupTypeOK, TasksTypeOK
    <3> QED
      BY <1>5, <3>3, <3>4
  <2> QED
    BY <1>4, <2>1, <2>3
<1>6. ASSUME NEW w \in Workers, LoopStep(w), UNCHANGED routingVars
      PROVE  (\A v \in Workers : TaskAnswered(v)') /\ AnswersTrue'
  <2>1. UNCHANGED <<stream, fail_reason, answers>>
    BY <1>6 DEF LoopStep, Begin, Ack, Read, GetPending, Claim, Count, UNCHANGED_group, routingVars
  <2>2. cur \in [Workers -> 0 .. delivered] /\ "consumer" \in Workers /\ "recoverer" \in Workers
    BY DEF IInv, TypeOK, GroupTypeOK, TasksTypeOK, Workers
  <2>3. ASSUME NEW v \in Workers, at'[v] \in {"decide", "record"}
        PROVE  at'[v] = at[v] /\ cur'[v] = cur[v]
    <3>1. CASE Begin(w)
      BY <1>1, <2>2, <2>3, <3>1 DEF Begin, FirstPlace
    <3>2. CASE Ack(w)
      BY <1>1, <2>2, <2>3, <3>2 DEF Ack, NextMessage, Abandon
    <3>3. CASE Read \/ GetPending
      BY <1>1, <2>2, <2>3, <3>3 DEF Read, GetPending
    <3>4. CASE Claim
      BY <1>1, <2>2, <2>3, <3>4 DEF Claim, Abandon
    <3>5. CASE Count
      BY <1>1, <2>2, <2>3, <3>5 DEF Count, Goto, NextMessage, Abandon
    <3> QED
      BY <1>6, <3>1, <3>2, <3>3, <3>4, <3>5 DEF LoopStep
  <2> QED
    BY <1>4, <2>1, <2>3
<1>7. ASSUME EnvironmentStep, UNCHANGED routingVars
      PROVE  (\A v \in Workers : TaskAnswered(v)') /\ AnswersTrue'
  <2>1. stream \in Seq(Events \cup {Garbage}) /\ delivered \in 0 .. Len(stream)
    BY DEF IInv, TypeOK, GroupTypeOK, StreamTypeOK
  <2>2. \A m \in 1 .. delivered : stream'[m] = stream[m]
    BY <1>7, <2>1 DEF EnvironmentStep, XAdd, Elapse, Crash
  <2>3. \A w \in Workers : at'[w] \in {"decide", "record"} => at'[w] = at[w] /\ cur'[w] = cur[w]
    BY <1>7 DEF EnvironmentStep, XAdd, Elapse, Crash
  <2> QED
    BY <1>4, <1>7, <2>2, <2>3 DEF routingVars
<1>8. ASSUME UNCHANGED <<groupVars, fail_reason, answers>>
      PROVE  (\A v \in Workers : TaskAnswered(v)') /\ AnswersTrue'
  <2>1. UNCHANGED <<stream, at, cur>>
    BY <1>8 DEF groupVars
  <2> QED
    BY <1>4, <1>8, <2>1
<1>9. (\A v \in Workers : TaskAnswered(v)') /\ AnswersTrue'
  <2>1. CASE \E name \in Channels, b \in BOOLEAN : set_enabled(name, b)
    BY <1>8, <2>1 DEF set_enabled
  <2>2. CASE UNCHANGED vars
    BY <1>8, <2>2 DEF vars, routingVars
  <2>3. ASSUME NEW w \in Workers, WorkerStep(w)
        PROVE  (\A v \in Workers : TaskAnswered(v)') /\ AnswersTrue'
    BY <1>2, <1>3, <1>5, <1>6, <2>3 DEF WorkerStep, HandleStep
  <2> QED
    BY <1>7, <2>1, <2>2, <2>3 DEF Next
<1> QED
  BY <1>9 DEF RecordsAnswer, NamesChannel

LEMMA HistoryGrows == ASSUME IInv, [Next]_vars PROVE \A e \in Events : answers[e] \subseteq answers'[e]
<1>1. ASSUME NEW w \in Workers, _decide(w) PROVE \A e \in Events : answers[e] \subseteq answers'[e]
  BY <1>1, DecideStep
<1>2. CASE UNCHANGED answers
  BY <1>2
<1> QED
  BY <1>1, <1>2 DEF Next, WorkerStep, HandleStep, Check, RecordDecision, GiveUp, set_enabled,
     routingVars, vars

\* One event's part of DecisionWasAnswered and ForwardedIsDeliverable.
Justified(e) ==
    /\ UniqueViolation(e) /\ route[e] # "max_retries_exceeded" => route[e] \in answers[e]
    /\ outbox[e]["NotificationRouted"] > 0 => e \in Complete /\ ChannelOf[e] \in Channels

\* A recorded decision is the answer the task got, and one that forwards the
\* notification passed the payload check.
LEMMA JustifiedStep ==
    ASSUME IInv, [Next]_vars
    PROVE  DecisionWasAnswered' /\ ForwardedIsDeliverable'
<1>1. \A e \in Events : answers[e] \subseteq answers'[e] /\ Justified(e)
  BY HistoryGrows DEF IInv, Justified, DecisionWasAnswered, ForwardedIsDeliverable
<1>2. OneDecision' /\ AnswersTrue' /\ RoutingTypeOK'
  BY DecisionStep, AnsweredStep, RoutingTypeStep
<1>3. ASSUME NEW e \in Events, NEW reason \in Decisions, _record_decision(e, reason),
             reason # "max_retries_exceeded" => reason \in answers'[e]
      PROVE  \A d \in Events : Justified(d)'
  <2>1. /\ route' = [route EXCEPT ![e] = reason]
        /\ \A d \in Events : d # e => outbox'[d] = outbox[d]
        /\ reason = NoReason => e \in Complete
        /\ route'[e] = reason
    BY <1>3 DEF _record_decision, Unforwardable, IInv, TypeOK
  <2>2. ASSUME NEW d \in Events, d # e PROVE Justified(d)'
    <3>1. route'[d] = route[d] /\ outbox'[d] = outbox[d]
      BY <2>1, <2>2
    <3> QED
      BY <1>1, <3>1 DEF Justified, UniqueViolation
  <2>3. Justified(e)'
    <3>1. outbox'[e]["NotificationRouted"] > 0 => reason = NoReason
      BY <1>2, <2>1 DEF OneDecision, RoutingEvent, RoutingEvents
    <3>2. reason = NoReason => NoReason \in answers'[e] /\ e \in Complete
      BY <1>3, <2>1 DEF NoReason
    <3> QED
      BY <1>2, <1>3, <2>1, <3>1, <3>2 DEF Justified, AnswersTrue
  <2> QED
    BY <2>2, <2>3
<1>4. ASSUME NEW w \in Workers, at[w] = "record", CommitDecision(w) PROVE \A d \in Events : Justified(d)'
  <2>1. /\ Event(w) \in Events /\ fail_reason[w] \in Decisions
        /\ fail_reason[w] \in answers'[Event(w)]
    BY <1>1, <1>4, RecordedDecision
  <2> QED
    BY <1>3, <1>4, <2>1 DEF CommitDecision
<1>5. ASSUME at["recoverer"] = "giveup", CommitGiveUp(Event("recoverer"))
      PROVE  \A d \in Events : Justified(d)'
  <2>1. Event("recoverer") \in Events /\ "max_retries_exceeded" \in Decisions
    BY <1>5, Held DEF Workers, Decisions, FailReasons
  <2> QED
    BY <1>3, <1>5, <2>1 DEF CommitGiveUp
<1>6. ASSUME UNCHANGED <<route, outbox>> PROVE \A d \in Events : Justified(d)'
  BY <1>1, <1>6 DEF Justified, UniqueViolation
<1>7. \A d \in Events : Justified(d)'
  BY <1>4, <1>5, <1>6, StepRecords
<1> QED
  BY <1>7 DEF Justified, DecisionWasAnswered, ForwardedIsDeliverable

----------------------------------------------------------------------------
(* The theorems.                                                           *)

LEMMA InvInit == Init => IInv
<1> SUFFICES ASSUME Init PROVE IInv
  OBVIOUS
<1>1. GroupTypeOK /\ GroupInv
  BY GroupTypeInit, GroupInvInit DEF Init
<1>2. TypeOK
  BY <1>1 DEF Init, TypeOK, Answers, NoReason, NoRoute
<1>3. OneDecision
  BY DEF Init, GroupInit, OneDecision, Finished, is_processed, NoRow, Terminal, UniqueViolation, NoRoute
<1>4. \A w \in Workers : at[w] = "loop"
  BY DEF Init, GroupInit
<1>5. RecordsAnswer /\ NamesChannel
  BY <1>4 DEF RecordsAnswer, NamesChannel
<1>6. AnswersTrue /\ DecisionWasAnswered /\ ForwardedIsDeliverable
  BY DEF Init, AnswersTrue, DecisionWasAnswered, ForwardedIsDeliverable, UniqueViolation, RoutingEvents
<1> QED
  BY <1>1, <1>2, <1>3, <1>5, <1>6 DEF IInv

LEMMA InvStep == IInv /\ [Next]_vars => IInv'
<1> SUFFICES ASSUME IInv, [Next]_vars PROVE IInv'
  OBVIOUS
<1>1. TypeOK'
  BY GroupStep, RoutingTypeStep DEF TypeOK, RoutingTypeOK
<1> QED
  BY <1>1, GroupStep, DecisionStep, AnsweredStep, JustifiedStep DEF IInv

\* The inductive invariant of the routing worker holds in every reachable state.
THEOREM Invariant == Spec => []IInv
<1> QED
  BY InvInit, InvStep, PTL DEF Spec

\* Every variable of the routing worker keeps its type.
THEOREM TypeCorrect == Spec => []TypeOK
<1>1. IInv => TypeOK
  BY DEF IInv
<1> QED
  BY <1>1, Invariant, PTL

\* An event gets at most one decision, and the route, the ledger row and the
\* one outbox event that announces it agree, although two tasks decide.
THEOREM DecidedOnce == Spec => []OneDecision
<1>1. IInv => OneDecision
  BY DEF IInv
<1> QED
  BY <1>1, Invariant, PTL

\* Whatever is recorded, but for a give-up, was answered by
\* configuration-service: an outage is never taken for a failure.
THEOREM NoGuesses == Spec => []DecisionWasAnswered
<1>1. IInv => DecisionWasAnswered
  BY DEF IInv
<1> QED
  BY <1>1, Invariant, PTL

\* A forwarded notification has a recipient, a body and a configured channel.
THEOREM ForwardsDeliverable == Spec => []ForwardedIsDeliverable
<1>1. IInv => ForwardedIsDeliverable
  BY DEF IInv
<1> QED
  BY <1>1, Invariant, PTL

\* An acknowledged NotificationCreated has its decision on record, whatever was
\* lost, abandoned or crashed before.
THEOREM NoLoss == Spec => []NothingLost
<1>1. IInv => NothingLost
  BY DEF IInv, GroupInv
<1> QED
  BY <1>1, Invariant, PTL

\* A notification is never failed with max_retries_exceeded before
\* PENDING_MAX_RETRIES counted attempts, however long configuration-service has
\* been away; and no more than those are counted, but for faults.
THEOREM GivesUpOnTime == Spec => [](GiveUpAfterMaxRetries /\ RetriesBounded)
<1>1. IInv => GiveUpAfterMaxRetries /\ RetriesBounded
  BY DEF IInv, GroupInv
<1> QED
  BY <1>1, Invariant, PTL

\* A decision is final, with all that was written in its transaction: the route
\* keeps its reason and the ledger row its status and count, and nothing more is
\* announced, although a slower attempt may have been told something else.
DecisionFinal ==
    [][\A e \in Events :
         UniqueViolation(e) => UNCHANGED <<route[e], ledger[e], outbox[e]>>]_vars

\* A decision, once recorded, is never changed by a step.
THEOREM DecisionIsFinal == Spec => DecisionFinal
<1>1. ASSUME IInv, [Next]_vars, NEW e \in Events, UniqueViolation(e)
      PROVE  UNCHANGED <<route[e], ledger[e], outbox[e]>>
  <2>1. Finished(e)
    BY <1>1 DEF IInv, OneDecision
  <2>2. /\ route \in [Events -> Decisions \cup {NoRoute}]
        /\ outbox \in [Events -> [RoutingEvents -> Nat]]
        /\ ledger \in [Events -> Row]
    BY <1>1 DEF IInv, TypeOK, GroupTypeOK
  <2>3. ASSUME NEW w \in Workers, at[w] = "record", CommitDecision(w)
        PROVE  UNCHANGED <<route[e], ledger[e], outbox[e]>>
    <3>1. Event(w) # e
      BY <1>1, <2>3 DEF CommitDecision, _record_decision
    <3> QED
      BY <2>2, <2>3, <3>1 DEF CommitDecision, _record_decision
  <2>4. ASSUME CommitGiveUp(Event("recoverer"))
        PROVE  UNCHANGED <<route[e], ledger[e], outbox[e]>>
    <3>1. Event("recoverer") # e
      BY <1>1, <2>4 DEF CommitGiveUp, _record_decision
    <3> QED
      BY <2>2, <2>4, <3>1 DEF CommitGiveUp, _record_decision
  <2> QED
    BY <1>1, <2>1, <2>3, <2>4, StepRecords
<1>2. IInv /\ [Next]_vars =>
        [\A e \in Events : UniqueViolation(e) => UNCHANGED <<route[e], ledger[e], outbox[e]>>]_vars
  BY <1>1
<1> QED
  BY <1>2, Invariant, PTL DEF Spec, DecisionFinal

----------------------------------------------------------------------------
(* The refinement.                                                         *)

\* Only an acknowledgement releases a job, and only a finished one.
LEMMA StepReleases ==
    ASSUME IInv, [Next]_vars
    PROVE  \/ Released' = Released
           \/ \E j \in Ours : /\ Finished(j)
                              /\ Released' = Released \cup {j}
                              /\ UNCHANGED <<route, outbox>>
<1> USE DEF IInv, TypeOK, GroupTypeOK, StreamTypeOK, TasksTypeOK
<1>1. ASSUME NEW w \in Workers, Ack(w), UNCHANGED routingVars
      PROVE  \/ Released' = Released
             \/ \E j \in Ours : /\ Finished(j)
                                /\ Released' = Released \cup {j}
                                /\ UNCHANGED <<route, outbox>>
  <2>1. /\ at[w] = "ack" /\ cur[w] \in 1 .. delivered /\ Settled(cur[w])
        /\ stream' = stream /\ delivered' = delivered
        /\ pel' = pel \/ pel' = pel \ {cur[w]}
    BY <1>1 DEF Ack, Working, GroupInv, HoldsEntry, AcksSettled, Holding
  <2>2. Acked' = Acked \/ Acked' = Acked \cup {cur[w]}
    BY <2>1 DEF Acked
  <2>3. CASE Event(w) \in Ours
    <3>1. Finished(Event(w))
      BY <2>1, <2>3 DEF Settled, Event
    <3>2. Released' = Released \/ Released' = Released \cup {Event(w)}
      BY <2>1, <2>2, <2>3 DEF Released, Event, Entry
    <3> QED
      BY <1>1, <2>3, <3>1, <3>2 DEF routingVars
  <2>4. CASE Event(w) \notin Ours
    BY <2>1, <2>2, <2>4 DEF Released, Event, Entry
  <2> QED
    BY <2>3, <2>4
<1>2. CASE Read
  <2>1. LastOfBatch \in delivered .. Len(stream)
    BY <1>2, GroupAssumption DEF Read, LastOfBatch
  <2>2. Acked' = Acked /\ stream' = stream
    BY <1>2, <2>1 DEF Read, Acked
  <2> QED
    BY <2>2 DEF Released, Entry
<1>3. ASSUME NEW e \in Events \cup {Garbage}, XAdd(e) PROVE Released' = Released
  <2>1. Acked' = Acked /\ \A m \in Acked : stream'[m] = stream[m]
    BY <1>3 DEF XAdd, Acked
  <2> QED
    BY <2>1 DEF Released, Entry
<1>4. CASE UNCHANGED <<stream, delivered, pel>>
  BY <1>4 DEF Released, Entry, Acked
<1> QED
  BY <1>1, <1>2, <1>3, <1>4 DEF Next, WorkerStep, LoopStep, HandleStep, EnvironmentStep, Begin,
     GetPending, Claim, Count, Check, _decide, RecordDecision, GiveUp, Elapse, Crash, set_enabled,
     UNCHANGED_group, vars, groupVars

\* A recorded decision is a Settle step of the promise, an acknowledgement a
\* Release step, and everything else stutters.
LEMMA StepRefines == IInv /\ [Next]_vars => [Promise!Next]_Promise!vars
<1> SUFFICES ASSUME IInv, [Next]_vars PROVE [Promise!Next]_Promise!vars
  OBVIOUS
<1>1. ASSUME NEW e \in Ours, NEW reason \in Decisions, _record_decision(e, reason),
             Acked' = Acked, stream' = stream
      PROVE  Promise!Settle(e, RoutingEvent(reason))
  <2>1. e \in Events /\ ~UniqueViolation(e)
    BY <1>1, GroupAssumption DEF _record_decision
  <2>2. /\ route' = [route EXCEPT ![e] = reason] /\ route \in [Events -> Decisions \cup {NoRoute}]
        /\ outbox' = [outbox EXCEPT ![e][RoutingEvent(reason)] = outbox[e][RoutingEvent(reason)] + 1]
        /\ outbox \in [Events -> [RoutingEvents -> Nat]]
        /\ reason # NoRoute
    BY <1>1 DEF _record_decision, IInv, TypeOK, Decisions, FailReasons, NoReason, NoRoute
  <2>3. Effect[e] = NoRoute
    BY <2>1 DEF Effect
  <2>4. Effect' = [Effect EXCEPT ![e] = RoutingEvent(reason)]
    BY <2>1, <2>2, GroupAssumption DEF Effect, UniqueViolation, RoutingEvent
  <2>5. Announced' = [Announced EXCEPT ![e][RoutingEvent(reason)] = @ + 1]
    BY <2>1, <2>2, GroupAssumption DEF Announced
  <2>6. Released' = Released
    BY <1>1 DEF Released, Entry
  <2> QED
    BY <2>3, <2>4, <2>5, <2>6 DEF Promise!Settle
<1>2. ASSUME NEW j \in Ours, Finished(j), Released' = Released \cup {j}, UNCHANGED <<route, outbox>>
      PROVE  Promise!Release(j)
  <2>1. Effect[j] # NoRoute
    BY <1>2, GroupAssumption DEF IInv, OneDecision, Effect, RoutingEvent, NoRoute
  <2> QED
    BY <1>2, <2>1 DEF Promise!Release, Effect, Announced, UniqueViolation
<1>3. CASE UNCHANGED <<route, outbox>> /\ Released' = Released
  BY <1>3 DEF Promise!vars, Effect, Announced, UniqueViolation
<1>4. \A reason : RoutingEvent(reason) \in RoutingEvents
  BY DEF RoutingEvent, RoutingEvents
<1>5. ASSUME NEW w \in Workers, at[w] = "record", CommitDecision(w), UNCHANGED <<stream, delivered, pel>>
      PROVE  Promise!Next
  <2>1. Event(w) \in Ours /\ fail_reason[w] \in Decisions /\ Acked' = Acked
    BY <1>5, RecordedDecision DEF Acked
  <2> QED
    BY <1>1, <1>4, <1>5, <2>1 DEF CommitDecision, Promise!Next
<1>6. ASSUME at["recoverer"] = "giveup", CommitGiveUp(Event("recoverer")), UNCHANGED <<stream, delivered, pel>>
      PROVE  Promise!Next
  <2>1. /\ Event("recoverer") \in Ours /\ "max_retries_exceeded" \in Decisions
        /\ Acked' = Acked
    BY <1>6, Held DEF Acked, Workers, Decisions, FailReasons
  <2> QED
    BY <1>1, <1>4, <1>6, <2>1 DEF CommitGiveUp, Promise!Next
<1>7. CASE UNCHANGED <<route, outbox>>
  BY <1>2, <1>3, <1>7, StepReleases DEF Promise!Next
<1> QED
  BY <1>5, <1>6, <1>7, StepRecords

\* routing-service implements ExactlyOnce: one final decision per notification,
\* announced by exactly one event, and no acknowledgement before it.
THEOREM ImplementsExactlyOnce == Spec => ExactlyOnceDecision
<1>1. Init => Promise!Init
  BY GroupAssumption DEF Init, GroupInit, Promise!Init, Effect, Announced, Released, UniqueViolation, Acked
<1> QED
  BY <1>1, StepRefines, Invariant, PTL DEF Spec, ExactlyOnceDecision, Promise!Spec
=============================================================================
