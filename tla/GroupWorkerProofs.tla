-------------------------- MODULE GroupWorkerProofs --------------------------
(***************************************************************************)
(* What the shared part of every worker preserves, whatever handle() and   *)
(* give_up() do: lemmas about the ledger's statements, about the moves of  *)
(* a task, and the type of the group's state.                              *)
(***************************************************************************)
EXTENDS GroupWorker, TLAPS

----------------------------------------------------------------------------
(* The ledger's statements.                                                *)

\* Every statement leaves a row, and the terminal marks keep its count
\* (idempotency.py mark_processed, mark_failed_permanent).
LEMMA LedgerTyped ==
    ASSUME NEW row \in Row
    PROVE  /\ mark_processed(row) \in Row
           /\ mark_failed_permanent(row) \in Row
           /\ increment_fail_count(row) \in Row
           /\ mark_processed(row).status = "PROCESSED"
           /\ mark_failed_permanent(row).status = "FAILED_PERMANENT"
           /\ mark_processed(row).fail_count = row.fail_count
           /\ mark_failed_permanent(row).fail_count = row.fail_count
  BY DEF Row, ProcessedStatus, mark_processed, mark_failed_permanent,
         increment_fail_count, is_processed, Terminal

\* increment_fail_count never reopens a terminal row, and counts one attempt
\* on any other (idempotency.py increment_fail_count).
LEMMA IncrementCounts ==
    ASSUME NEW row \in Row
    PROVE  /\ is_processed(row) => increment_fail_count(row) = row
           /\ ~is_processed(row) =>
                /\ ~is_processed(increment_fail_count(row))
                /\ increment_fail_count(row).status = "FAILING"
                /\ increment_fail_count(row).fail_count = row.fail_count + 1
  BY DEF Row, ProcessedStatus, increment_fail_count, is_processed, Terminal

----------------------------------------------------------------------------
(* Types.                                                                  *)

LEMMA GroupTypeInit == GroupInit => GroupTypeOK
  BY GroupAssumption DEF GroupInit, GroupTypeOK, StreamTypeOK, TasksTypeOK, Workers,
     Places, NoEntry, NoRow, Row

\* A fault is counted, up to the bound.
LEMMA FaultsTyped ==
    ASSUME GroupTypeOK, Fault \/ NoFault
    PROVE  faults' \in 0 .. MaxFaults
  BY GroupAssumption DEF GroupTypeOK, Fault, NoFault

\* A move of a task between places keeps the tasks well typed.
LEMMA GotoTyped ==
    ASSUME GroupTypeOK, NEW w \in Workers, NEW place \in Places, Goto(w, place), UNCHANGED delivered
    PROVE  TasksTypeOK'
  BY DEF GroupTypeOK, TasksTypeOK, Goto

LEMMA NextMessageTyped ==
    ASSUME GroupTypeOK, NEW w \in Workers, NextMessage(w), UNCHANGED delivered
    PROVE  TasksTypeOK'
  BY DEF GroupTypeOK, StreamTypeOK, TasksTypeOK, NextMessage, NoEntry, Places

LEMMA AbandonTyped ==
    ASSUME GroupTypeOK, NEW w \in Workers, Abandon(w), UNCHANGED delivered
    PROVE  TasksTypeOK'
  BY DEF GroupTypeOK, StreamTypeOK, TasksTypeOK, Abandon, NoEntry, Places

LEMMA RaiseTyped ==
    ASSUME GroupTypeOK, NEW w \in Workers, Raise(w), UNCHANGED delivered
    PROVE  TasksTypeOK'
<1>1. "count" \in Places
  BY DEF Places
<1> QED
  BY <1>1, GotoTyped, AbandonTyped DEF Raise

\* The group's part of a step that only moves a task and writes its event's
\* ledger row.
LEMMA HandlerTyped ==
    ASSUME GroupTypeOK, UNCHANGED_group, TasksTypeOK', Fault \/ NoFault, ledger' \in [Events -> Row]
    PROVE  GroupTypeOK'
  BY FaultsTyped DEF GroupTypeOK, StreamTypeOK, UNCHANGED_group

----------------------------------------------------------------------------
LEMMA ReadTyped == GroupTypeOK /\ Read => GroupTypeOK'
<1> SUFFICES ASSUME GroupTypeOK, Read PROVE GroupTypeOK'
  OBVIOUS
<1> USE GroupAssumption DEF GroupTypeOK, StreamTypeOK, TasksTypeOK
<1>1. LastOfBatch \in delivered .. Len(stream)
  BY DEF Read, LastOfBatch
<1>2. /\ delivered' = LastOfBatch
      /\ pel' = pel \cup (delivered + 1 .. LastOfBatch)
      /\ UNCHANGED <<stream, idle, at, cur, ledger>>
  BY DEF Read
<1>3. todo' \in [Workers -> SUBSET (1 .. LastOfBatch)]
  <2>1. todo \in [Workers -> SUBSET (1 .. LastOfBatch)]
    BY <1>1
  <2>2. (delivered + 1 .. LastOfBatch) \in SUBSET (1 .. LastOfBatch)
    BY <1>1
  <2>3. \/ todo' = [todo EXCEPT !["consumer"] = delivered + 1 .. LastOfBatch]
        \/ todo' = todo
    BY DEF Read
  <2> QED
    BY <2>1, <2>2, <2>3 DEF Workers
<1>4. faults' \in 0 .. MaxFaults
  BY FaultsTyped DEF Read
<1>5. StreamTypeOK'
  <2>1. pel' \subseteq 1 .. delivered'
    BY <1>1, <1>2
  <2>2. delivered' \in 0 .. Len(stream')
    BY <1>1, <1>2
  <2> QED
    BY <1>2, <2>1, <2>2
<1>6. TasksTypeOK'
  BY <1>1, <1>2, <1>3
<1> QED
  BY <1>2, <1>4, <1>5, <1>6

LEMMA BeginTyped ==
    ASSUME GroupTypeOK, NEW w \in Workers, Begin(w)
    PROVE  GroupTypeOK'
  BY DEF Begin, FirstPlace, GroupTypeOK, StreamTypeOK, TasksTypeOK, Places, HandlePlaces

LEMMA AckTyped ==
    ASSUME GroupTypeOK, NEW w \in Workers, Ack(w)
    PROVE  GroupTypeOK'
<1>1. TasksTypeOK'
  BY NextMessageTyped, AbandonTyped DEF Ack
<1>2. StreamTypeOK'
  BY DEF Ack, GroupTypeOK, StreamTypeOK
<1> QED
  BY <1>1, <1>2, FaultsTyped DEF Ack, GroupTypeOK

LEMMA GetPendingTyped == GroupTypeOK /\ GetPending => GroupTypeOK'
<1> SUFFICES ASSUME GroupTypeOK, GetPending PROVE GroupTypeOK'
  OBVIOUS
<1>1. Lowest(BatchSize, idle) \subseteq idle
  BY DEF Lowest
<1> QED
  BY <1>1 DEF GetPending, GroupTypeOK, StreamTypeOK, TasksTypeOK, Workers, Places

LEMMA ClaimTyped == GroupTypeOK /\ Claim => GroupTypeOK'
<1> SUFFICES ASSUME GroupTypeOK, Claim PROVE GroupTypeOK'
  OBVIOUS
<1>1. "recoverer" \in Workers /\ "loop" \in Places
  BY DEF Workers, Places
<1>2. TasksTypeOK'
  <2>1. CASE Abandon("recoverer")
    BY <1>1, <2>1, AbandonTyped DEF Claim
  <2>2. CASE /\ todo' = [todo EXCEPT !["recoverer"] = todo["recoverer"] \cap idle]
             /\ at' = [at EXCEPT !["recoverer"] = "loop"]
             /\ UNCHANGED cur
    BY <1>1, <2>2 DEF Claim, GroupTypeOK, TasksTypeOK
  <2> QED
    BY <2>1, <2>2 DEF Claim
<1>3. StreamTypeOK'
  BY DEF Claim, GroupTypeOK, StreamTypeOK
<1> QED
  BY <1>2, <1>3, FaultsTyped DEF Claim, GroupTypeOK

LEMMA CountTyped ==
    ASSUME GroupTypeOK, Count
    PROVE  GroupTypeOK'
<1>1. "recoverer" \in Workers /\ {"ack", "giveup"} \subseteq Places
  BY DEF Workers, Places
<1>2. TasksTypeOK'
  BY <1>1, GotoTyped, NextMessageTyped, AbandonTyped DEF Count, UNCHANGED_group
<1>3. ledger' \in [Events -> Row]
  BY LedgerTyped DEF Count, CountFailure, GroupTypeOK
<1> QED
  BY <1>2, <1>3, HandlerTyped DEF Count

\* The environment's steps: a new entry, time, a crash.
LEMMA EnvironmentTyped == GroupTypeOK /\ EnvironmentStep => GroupTypeOK'
<1> SUFFICES ASSUME GroupTypeOK, EnvironmentStep PROVE GroupTypeOK'
  OBVIOUS
<1> USE GroupAssumption DEF GroupTypeOK, StreamTypeOK, TasksTypeOK
<1>1. ASSUME NEW e \in Events \cup {Garbage}, XAdd(e) PROVE GroupTypeOK'
  BY <1>1 DEF XAdd
<1>2. ASSUME NEW m \in EntryIds, Elapse(m) PROVE GroupTypeOK'
  BY <1>2 DEF Elapse
<1>3. CASE Crash
  BY <1>3 DEF Crash, Fault, NoEntry, Places
<1> QED
  BY <1>1, <1>2, <1>3 DEF EnvironmentStep

LEMMA LoopTyped ==
    ASSUME GroupTypeOK, NEW w \in Workers, LoopStep(w)
    PROVE  GroupTypeOK'
  BY ReadTyped, BeginTyped, AckTyped, GetPendingTyped, ClaimTyped, CountTyped DEF LoopStep

----------------------------------------------------------------------------
(* GroupInv.  Its parts fall in two: what the tasks know of the entry they *)
(* hold, and what the ledger says of the events.                           *)

LEMMA GroupInvInit == GroupInit => GroupInv
  BY GroupAssumption DEF GroupInit, GroupInv, HoldsEntry, AcksSettled, NothingLost,
     GivesUpExhausted, GiveUpAfterMaxRetries, AttemptsLeft, RetriesBounded, Holding, Workers,
     NoRow, Acked, GivingUp, Working

\* The events are settled for good, and the entries stay what they were.
LEMMA SettledForGood ==
    ASSUME StreamTypeOK, NEW m \in 1 .. delivered, Settled(m),
           stream' = stream, \A e \in Ours : Finished(e) => Finished(e)'
    PROVE  Settled(m)'
  BY DEF Settled, Entry, StreamTypeOK

LEMMA EnvironmentKeepsInv ==
    ASSUME GroupTypeOK, GroupInv, EnvironmentStep
    PROVE  GroupInv'
<1> USE DEF GroupTypeOK, StreamTypeOK, TasksTypeOK
<1>1. ASSUME NEW e \in Events \cup {Garbage}, XAdd(e) PROVE GroupInv'
  <2>1. \A m \in 1 .. delivered : stream'[m] = stream[m]
    BY <1>1 DEF XAdd
  <2>2. UNCHANGED <<delivered, pel, idle, at, cur, todo, ledger, faults>>
    BY <1>1 DEF XAdd
  <2>3. \A w \in Workers : Holding(w) => Event(w)' = Event(w)
    BY <2>1, <2>2 DEF GroupInv, HoldsEntry, Event, Entry
  <2>4. \A m \in 1 .. delivered : Settled(m) => Settled(m)'
    BY <2>1, <2>2 DEF Settled, Entry, Finished
  <2>5. NothingLost'
    BY <2>2, <2>4 DEF GroupInv, NothingLost, Acked
  <2>6. HoldsEntry' /\ AcksSettled'
    BY <2>2, <2>3, <2>4 DEF GroupInv, HoldsEntry, AcksSettled, Holding
  <2>7. \A e_1 \in Events : GivingUp(e_1)' <=> GivingUp(e_1)
    BY <2>2, <2>3 DEF GivingUp, Working, Holding, Workers
  <2> QED
    BY <2>2, <2>5, <2>6, <2>7 DEF GroupInv, GivesUpExhausted, GiveUpAfterMaxRetries,
       AttemptsLeft, RetriesBounded, Finished
<1>2. ASSUME NEW m \in EntryIds, Elapse(m) PROVE GroupInv'
  BY <1>2 DEF Elapse, GroupInv, HoldsEntry, AcksSettled, NothingLost, GivesUpExhausted,
     GiveUpAfterMaxRetries, AttemptsLeft, RetriesBounded, Holding, Acked, GivingUp, Working,
     Settled, Finished, Entry, Event
<1>3. CASE Crash
  BY <1>3, GroupAssumption DEF Crash, Fault, GroupInv, HoldsEntry, AcksSettled, NothingLost,
     GivesUpExhausted, GiveUpAfterMaxRetries, AttemptsLeft, RetriesBounded, Holding, Acked,
     GivingUp, Working, Settled, Finished, Entry, Event, Workers, Row
<1> QED
  BY <1>1, <1>2, <1>3 DEF EnvironmentStep

(***************************************************************************)
(* A step of the loop leaves the ledger alone but for Count, and leaves    *)
(* the other task alone.                                                   *)
(***************************************************************************)
LEMMA LedgerUntouched ==
    ASSUME GroupTypeOK, GroupInv, UNCHANGED ledger, Fault \/ NoFault
    PROVE  GiveUpAfterMaxRetries' /\ RetriesBounded'
  BY GroupAssumption DEF GroupTypeOK, GroupInv, GiveUpAfterMaxRetries, RetriesBounded, Row,
     Fault, NoFault

LEMMA ReadKeepsInv == ASSUME GroupTypeOK, GroupInv, Read PROVE GroupInv'
<1> USE DEF GroupTypeOK, StreamTypeOK, TasksTypeOK
<1>1. LastOfBatch \in delivered .. Len(stream)
  BY GroupAssumption DEF Read, LastOfBatch
<1>2. /\ delivered' = LastOfBatch
      /\ pel' = pel \cup (delivered + 1 .. LastOfBatch)
      /\ UNCHANGED <<stream, idle, at, cur, ledger>>
      /\ Fault \/ NoFault
  BY DEF Read
<1>3. Acked' = Acked
  BY <1>1, <1>2 DEF Acked
<1>4. NothingLost'
  BY <1>2, <1>3 DEF GroupInv, NothingLost, Settled, Entry, Finished
<1>5. HoldsEntry' /\ AcksSettled'
  BY <1>1, <1>2 DEF GroupInv, HoldsEntry, AcksSettled, Holding, Settled, Event, Entry, Finished
<1>6. GivesUpExhausted' /\ AttemptsLeft'
  BY <1>2, GroupAssumption DEF GroupInv, GivesUpExhausted, AttemptsLeft, GivingUp, Working, Event,
     Entry, Finished, Fault, NoFault, Row
<1> QED
  BY <1>2, <1>4, <1>5, <1>6, LedgerUntouched DEF GroupInv

LEMMA BeginKeepsInv ==
    ASSUME GroupTypeOK, GroupInv, NEW w \in Workers, Begin(w)
    PROVE  GroupInv'
<1> USE DEF GroupTypeOK, StreamTypeOK, TasksTypeOK
<1>1. PICK m \in todo[w] :
        /\ cur' = [cur EXCEPT ![w] = m]
        /\ at' = [at EXCEPT ![w] = FirstPlace(m)]
  BY DEF Begin
<1>2. at[w] = "loop" /\ UNCHANGED <<stream, delivered, pel, idle, ledger, faults>>
  BY DEF Begin, Working
<1>3. m \in 1 .. delivered /\ Entry(m) \in Events \cup {Garbage}
  BY DEF Entry
<1>4. HoldsEntry'
  BY <1>1, <1>2, <1>3 DEF GroupInv, HoldsEntry, Holding, Event, Entry, FirstPlace
<1>5. AcksSettled'
  BY <1>1, <1>2, <1>3, GroupAssumption
     DEF GroupInv, AcksSettled, Settled, Entry, Finished, FirstPlace
<1>6. \A e \in Events : GivingUp(e)' <=> GivingUp(e)
  BY <1>1, <1>2 DEF GivingUp, Working, Event, Entry, FirstPlace
<1> QED
  BY <1>2, <1>4, <1>5, <1>6 DEF GroupInv, NothingLost, GivesUpExhausted, AttemptsLeft,
     GiveUpAfterMaxRetries, RetriesBounded, Acked, Settled, Entry, Finished

LEMMA AckKeepsInv ==
    ASSUME GroupTypeOK, GroupInv, NEW w \in Workers, Ack(w)
    PROVE  GroupInv'
<1> USE DEF GroupTypeOK, StreamTypeOK, TasksTypeOK
<1>1. /\ at[w] = "ack"
      /\ at' = [at EXCEPT ![w] = "loop"]
      /\ cur' = [cur EXCEPT ![w] = NoEntry]
      /\ pel \ {cur[w]} \subseteq pel'
      /\ UNCHANGED <<stream, delivered, ledger>>
      /\ Fault \/ NoFault
  BY DEF Ack, Working, NextMessage, Abandon
<1>2. Settled(cur[w])
  BY <1>1 DEF GroupInv, AcksSettled
<1>3. NothingLost'
  BY <1>1, <1>2 DEF GroupInv, NothingLost, Acked, Settled, Entry, Finished
<1>4. HoldsEntry' /\ AcksSettled'
  BY <1>1 DEF GroupInv, HoldsEntry, AcksSettled, Holding, Settled, Event, Entry, Finished
<1>5. \A e \in Events : GivingUp(e)' <=> GivingUp(e)
  BY <1>1 DEF GivingUp, Working, Event, Entry
<1>6. GivesUpExhausted' /\ AttemptsLeft'
  BY <1>1, <1>5, GroupAssumption DEF GroupInv, GivesUpExhausted, AttemptsLeft, Finished, Fault,
     NoFault, Row
<1> QED
  BY <1>1, <1>3, <1>4, <1>6, LedgerUntouched DEF GroupInv

LEMMA SweepKeepsInv == ASSUME GroupTypeOK, GroupInv, GetPending \/ Claim PROVE GroupInv'
<1> USE DEF GroupTypeOK, StreamTypeOK, TasksTypeOK
<1>1. /\ at["recoverer"] \in {"loop", "claim"}
      /\ \E place \in {"loop", "claim"} : at' = [at EXCEPT !["recoverer"] = place]
      /\ \A w \in Workers : w # "recoverer" => cur'[w] = cur[w]
      /\ UNCHANGED <<stream, delivered, pel, ledger>>
      /\ Fault \/ NoFault
  BY DEF GetPending, Claim, Working, Abandon, NoFault, Workers
<1>2. HoldsEntry' /\ AcksSettled'
  BY <1>1 DEF GroupInv, HoldsEntry, AcksSettled, Holding, Settled, Event, Entry, Finished
<1>3. \A e \in Events : ~GivingUp(e) /\ ~GivingUp(e)'
  BY <1>1 DEF GivingUp, Working, Workers
<1>4. GivesUpExhausted' /\ AttemptsLeft'
  BY <1>1, <1>3, GroupAssumption DEF GroupInv, GivesUpExhausted, AttemptsLeft, Finished, Fault,
     NoFault, Row
<1>5. NothingLost'
  BY <1>1 DEF GroupInv, NothingLost, Acked, Settled, Entry, Finished
<1> QED
  BY <1>1, <1>2, <1>4, <1>5, LedgerUntouched DEF GroupInv

\* A move of a task between places.
Move(w) == \/ \E place \in Places : Goto(w, place)
           \/ NextMessage(w)
           \/ Abandon(w)

\* Moving one task keeps what the other one holds.
LEMMA OtherTaskHolds ==
    ASSUME GroupTypeOK, HoldsEntry, UNCHANGED_group, NEW w \in Workers, NEW v \in Workers, v # w,
           Move(w)
    PROVE  at'[v] = at[v] /\ cur'[v] = cur[v] /\ (Holding(v) => Event(v)' = Event(v))
  BY DEF GroupTypeOK, TasksTypeOK, UNCHANGED_group, Move, Goto, NextMessage, Abandon,
     HoldsEntry, Event, Entry

LEMMA CountKeepsInv == ASSUME GroupTypeOK, GroupInv, Count PROVE GroupInv'
<1> DEFINE e == Event("recoverer")
<1>1. /\ at["recoverer"] = "count" /\ "recoverer" \in Workers
      /\ e \in Ours /\ e \in Events
      /\ ledger[e] \in Row
      /\ UNCHANGED <<stream, delivered, pel, idle>>
  BY GroupAssumption DEF Count, Working, GroupInv, HoldsEntry, Workers, GroupTypeOK, UNCHANGED_group
<1>2. \A d \in Events : Finished(d) => ledger'[d] = ledger[d]
  BY <1>1, IncrementCounts DEF Count, CountFailure, GroupTypeOK, Finished
<1>3. \A d \in Events : d # e => ledger'[d] = ledger[d]
  BY <1>1 DEF Count, CountFailure, GroupTypeOK
<1>4. NothingLost'
  BY <1>1, <1>2, GroupAssumption DEF GroupInv, NothingLost, Acked, Settled, Entry, Finished
<1>5. HoldsEntry'
  BY <1>1 DEF Count, Goto, NextMessage, Abandon, GroupTypeOK, TasksTypeOK, GroupInv, HoldsEntry,
     Holding, Event, Entry, Workers
<1>6. AcksSettled'
  <2> SUFFICES ASSUME NEW w \in Workers, at'[w] = "ack" PROVE Settled(cur[w])'
    BY DEF AcksSettled
  <2>1. CASE w = "recoverer"
    <3>1. is_processed(ledger[e]) /\ CountFailure /\ cur' = cur
      BY <1>1, <2>1 DEF Count, Goto, NextMessage, Abandon, GroupTypeOK, TasksTypeOK
    <3> QED
      BY <1>1, <1>2, <2>1, <3>1 DEF Settled, Finished, Entry, Event
  <2>2. CASE w # "recoverer"
    <3>1. at[w] = "ack" /\ cur'[w] = cur[w]
      BY <1>1, <2>2 DEF Count, Goto, NextMessage, Abandon, GroupTypeOK, TasksTypeOK
    <3>2. Settled(cur[w])
      BY <3>1 DEF GroupInv, AcksSettled
    <3> QED
      BY <1>1, <1>2, <3>1, <3>2, GroupAssumption DEF Settled, Finished, Entry
  <2> QED
    BY <2>1, <2>2
<1>7. /\ faults \in Nat /\ faults' \in Nat /\ faults <= faults'
  BY FaultsTyped, GroupAssumption DEF Count, GroupTypeOK, Fault, NoFault
<1>8. ~GivingUp(e) /\ \A d \in Events : ~GivingUp(d)
  BY <1>1 DEF GivingUp, Working
<1>9. ~Finished(e) => ledger[e].fail_count < MaxRetries + faults
  BY <1>1, <1>8 DEF GroupInv, AttemptsLeft
<1>10. GiveUpAfterMaxRetries'
  <2>1. ledger'[e] = ledger[e] \/ ledger'[e].status = "FAILING"
    BY <1>1, IncrementCounts DEF Count, CountFailure, GroupTypeOK
  <2> QED
    BY <1>3, <2>1 DEF GroupInv, GiveUpAfterMaxRetries
<1>11. \/ ledger'[e] = ledger[e]
       \/ ~Finished(e) /\ ledger'[e].fail_count = ledger[e].fail_count + 1
  BY <1>1, IncrementCounts DEF Count, CountFailure, GroupTypeOK, Finished
<1>12. ledger[e].fail_count \in Nat
  BY <1>1 DEF Row
<1>13. RetriesBounded'
  <2>1. \A d \in Events : ledger[d].fail_count \in Nat
    BY DEF GroupTypeOK, Row
  <2> QED
    BY <1>3, <1>7, <1>9, <1>11, <1>12, <2>1, GroupAssumption DEF GroupInv, RetriesBounded
<1>14. GivesUpExhausted'
  <2> SUFFICES ASSUME NEW d \in Events, GivingUp(d)' PROVE ledger'[d].fail_count >= MaxRetries
    BY DEF GivesUpExhausted
  <2>1. at'["recoverer"] = "giveup" /\ Event("recoverer")' = d
    BY DEF GivingUp, Working
  <2>2. /\ ~is_processed(ledger[e])
        /\ should_give_up(increment_fail_count(ledger[e]).fail_count, MaxRetries)
        /\ CountFailure
        /\ cur' = cur
    BY <1>1, <2>1 DEF Count, Goto, NextMessage, Abandon, GroupTypeOK, TasksTypeOK
  <2>3. d = e
    BY <1>1, <2>1, <2>2 DEF Event, Entry
  <2>4. ledger'[e] = increment_fail_count(ledger[e])
    BY <1>1, <2>2 DEF CountFailure, GroupTypeOK
  <2> QED
    BY <1>1, <2>2, <2>3, <2>4, IncrementCounts DEF should_give_up
<1>15. AttemptsLeft'
  <2> SUFFICES ASSUME NEW d \in Events, ~Finished(d)', ~GivingUp(d)'
               PROVE  ledger'[d].fail_count < MaxRetries + faults'
    BY DEF AttemptsLeft
  <2>1. ledger[d].fail_count \in Nat
    BY DEF GroupTypeOK, Row
  <2>2. CASE d # e
    BY <1>3, <1>7, <1>8, <2>1, <2>2, GroupAssumption DEF GroupInv, AttemptsLeft, Finished
  <2>3. CASE d = e
    <3>1. ~Finished(e)
      BY <1>1, <1>2, <2>3 DEF Finished
    <3>2. CASE Fault
      BY <1>7, <1>9, <1>11, <1>12, <2>3, <3>1, <3>2, GroupAssumption DEF Fault
    <3>3. CASE ~Fault
      <4>1. /\ ~should_give_up(increment_fail_count(ledger[e]).fail_count, MaxRetries) \/ Goto("recoverer", "giveup")
            /\ CountFailure
        BY <3>1, <3>3 DEF Count, Finished
      <4>2. ~Goto("recoverer", "giveup")
        BY <1>1, <2>3 DEF GivingUp, Working, Goto, Event, Entry, GroupTypeOK, TasksTypeOK
      <4> QED
        BY <1>1, <1>7, <1>11, <1>12, <2>3, <3>1, <4>1, <4>2, IncrementCounts, GroupAssumption
           DEF should_give_up, Finished
    <3> QED
      BY <3>2, <3>3
  <2> QED
    BY <2>2, <2>3
<1> QED
  BY <1>4, <1>5, <1>6, <1>10, <1>13, <1>14, <1>15 DEF GroupInv

LEMMA LoopKeepsInv ==
    ASSUME GroupTypeOK, GroupInv, NEW w \in Workers, LoopStep(w)
    PROVE  GroupInv'
  BY ReadKeepsInv, BeginKeepsInv, AckKeepsInv, SweepKeepsInv, CountKeepsInv DEF LoopStep

----------------------------------------------------------------------------
(***************************************************************************)
(* The contract of RecoverableConsumer: what a component's handle() and    *)
(* give_up() may do to the ledger and where they may return to, for the    *)
(* group's invariant to survive.                                           *)
(***************************************************************************)

\* The ledger row of w's event is left alone or marked, and only give_up()
\* marks it failed.
Marks(w) ==
    \/ UNCHANGED ledger
    \/ ledger' = [ledger EXCEPT ![Event(w)] = mark_processed(@)]
    \/ /\ at[w] = "giveup"
       /\ ledger' = [ledger EXCEPT ![Event(w)] = mark_failed_permanent(@)]

\* True is returned only once the event needs nothing more; an exception or
\* False is counted; give_up() leaves the entry pending only after a failure of
\* its own or because the event is finished.
Returns(w) ==
    \/ Goto(w, "ack") /\ (Event(w) \in Ours => is_processed(ledger'[Event(w)]))
    \/ /\ at[w] \in HandlePlaces
       /\ Event(w) \in Ours
       /\ \/ \E place \in HandlePlaces \ {"handle"} : Goto(w, place)
          \/ Raise(w)
          \/ NotHandled(w)
    \/ /\ at[w] = "giveup"
       /\ NextMessage(w)
       /\ Fault \/ Finished(Event(w))

Contract(w) ==
    /\ at[w] \in HandlePlaces \cup {"giveup"}
    /\ UNCHANGED_group
    /\ Fault \/ NoFault
    /\ Marks(w)
    /\ Returns(w)

LEMMA ContractMoves ==
    ASSUME GroupTypeOK, GroupInv, NEW w \in Workers, Contract(w)
    PROVE  Move(w)
  BY DEF Contract, Returns, Move, Raise, NotHandled, Places, HandlePlaces

LEMMA MoveTyped ==
    ASSUME GroupTypeOK, NEW w \in Workers, Move(w), UNCHANGED delivered
    PROVE  TasksTypeOK'
  BY GotoTyped, NextMessageTyped, AbandonTyped DEF Move

\* The ledger under the marks of a task: rows stay rows, a finished event stays
\* finished, other rows and every count stay what they were.
LEMMA MarksLedger ==
    ASSUME GroupTypeOK, NEW w \in Workers, Marks(w)
    PROVE  /\ ledger' \in [Events -> Row]
           /\ \A e \in Events : Finished(e) => Finished(e)'
           /\ \A e \in Events : e # Event(w) => ledger'[e] = ledger[e]
           /\ \A e \in Events : ledger'[e].fail_count = ledger[e].fail_count
           /\ \A e \in Events :
                ledger'[e].status = "FAILED_PERMANENT" =>
                    ledger[e].status = "FAILED_PERMANENT" \/ (at[w] = "giveup" /\ e = Event(w))
  BY LedgerTyped DEF Marks, GroupTypeOK, Finished, is_processed, Terminal

LEMMA ContractTyped ==
    ASSUME GroupTypeOK, GroupInv, NEW w \in Workers, Contract(w)
    PROVE  GroupTypeOK'
  BY ContractMoves, MoveTyped, MarksLedger, HandlerTyped DEF Contract, UNCHANGED_group

LEMMA ContractKeepsInv ==
    ASSUME GroupTypeOK, GroupInv, NEW w \in Workers, Contract(w)
    PROVE  GroupInv'
<1>1. /\ UNCHANGED <<stream, delivered, pel, idle>>
      /\ Move(w)
      /\ Event(w) \in Events
      /\ cur[w] \in 1 .. delivered
  BY ContractMoves, GroupAssumption
     DEF Contract, UNCHANGED_group, GroupInv, HoldsEntry, Holding, HandlePlaces
<1>2. \A v \in Workers : v # w =>
          at'[v] = at[v] /\ cur'[v] = cur[v] /\ (Holding(v) => Event(v)' = Event(v))
  BY <1>1, OtherTaskHolds DEF GroupInv, Contract
<1>3. \A m \in 1 .. delivered : Settled(m) => Settled(m)'
  BY <1>1, MarksLedger, GroupAssumption DEF Contract, Settled, Entry
<1>4. NothingLost'
  BY <1>1, <1>3 DEF GroupInv, NothingLost, Acked, GroupTypeOK, StreamTypeOK
<1>5. HoldsEntry'
  <2> SUFFICES ASSUME NEW v \in Workers
               PROVE  /\ Holding(v)' => cur'[v] \in 1 .. delivered'
                      /\ at'[v] = "handle" => Event(v)' \in Events
                      /\ at'[v] \in {"decide", "deliver", "record", "count", "giveup"} =>
                            Event(v)' \in Ours
                      /\ at'[v] \in {"count", "giveup"} => v = "recoverer"
    BY DEF HoldsEntry
  <2>1. CASE v # w
    BY <1>1, <1>2, <2>1 DEF GroupInv, HoldsEntry, Holding
  <2>2. CASE v = w
    BY <1>1, <2>2 DEF Contract, Returns, Goto, Raise, NotHandled, NextMessage, Abandon, HandlePlaces,
       GroupInv, HoldsEntry, Holding, Event, Entry, Workers, GroupTypeOK, TasksTypeOK
  <2> QED
    BY <2>1, <2>2
<1>6. AcksSettled'
  <2> SUFFICES ASSUME NEW v \in Workers, at'[v] = "ack" PROVE Settled(cur[v])'
    BY DEF AcksSettled
  <2>1. CASE v # w
    BY <1>2, <1>3, <2>1 DEF GroupInv, AcksSettled, HoldsEntry, Holding
  <2>2. CASE v = w
    <3>1. cur' = cur /\ (Event(w) \in Ours => is_processed(ledger'[Event(w)]))
      BY <2>2 DEF Contract, Returns, Goto, Raise, NotHandled, NextMessage, Abandon, HandlePlaces,
         GroupTypeOK, TasksTypeOK
    <3> QED
      BY <1>1, <2>2, <3>1 DEF Settled, Finished, Entry, Event
  <2> QED
    BY <2>1, <2>2
<1>7. \A e \in Events : ledger[e].fail_count \in Nat
  BY DEF GroupTypeOK, Row
<1>8. RetriesBounded'
  BY <1>7, MarksLedger, GroupAssumption DEF Contract, Fault, NoFault, GroupTypeOK, GroupInv,
     RetriesBounded
<1>9. at[w] = "giveup" => GivingUp(Event(w))
  BY DEF GivingUp, Working, GroupInv, HoldsEntry
<1>10. GiveUpAfterMaxRetries'
  BY <1>1, <1>9, MarksLedger DEF Contract, GroupInv, GivesUpExhausted, GiveUpAfterMaxRetries
<1>11. \A e \in Events : GivingUp(e)' => GivingUp(e)
  BY <1>1, <1>2 DEF Contract, Returns, Goto, Raise, NotHandled, NextMessage, Abandon, HandlePlaces,
     GivingUp, Working, Event, Entry, Workers, GroupTypeOK, TasksTypeOK
<1>12. GivesUpExhausted'
  BY <1>11, MarksLedger DEF Contract, GroupInv, GivesUpExhausted
<1>13. AttemptsLeft'
  <2> SUFFICES ASSUME NEW e \in Events, ~Finished(e)', ~GivingUp(e)'
               PROVE  ledger'[e].fail_count < MaxRetries + faults'
    BY DEF AttemptsLeft
  <2>1. ledger'[e].fail_count = ledger[e].fail_count /\ ~Finished(e)
    BY MarksLedger DEF Contract
  <2>2. /\ faults \in Nat /\ faults' \in Nat /\ faults <= faults'
    BY FaultsTyped, GroupAssumption DEF Contract, GroupTypeOK, Fault, NoFault
  <2>3. CASE ~GivingUp(e)
    BY <1>7, <2>1, <2>2, <2>3, GroupAssumption DEF GroupInv, AttemptsLeft
  <2>4. CASE GivingUp(e)
    <3>1. at["recoverer"] = "giveup" /\ e = Event("recoverer")
      BY <2>4 DEF GivingUp, Working
    <3>2. w = "recoverer"
      BY <1>1, <1>2, <2>4, <3>1 DEF GivingUp, Working, Holding, Workers
    <3>3. Fault
      BY <2>1, <3>1, <3>2 DEF Contract, Returns, Goto, HandlePlaces, GroupTypeOK, TasksTypeOK,
         Finished, GroupInv, HoldsEntry
    <3> QED
      BY <1>7, <2>1, <2>2, <3>3, GroupAssumption DEF Fault, GroupInv, RetriesBounded
  <2> QED
    BY <2>3, <2>4
<1> QED
  BY <1>4, <1>5, <1>6, <1>8, <1>10, <1>12, <1>13 DEF GroupInv
=============================================================================
