----------------------------- MODULE GroupWorker -----------------------------
(***************************************************************************)
(* One consumer group of one Redis stream and the two tasks a service runs *)
(* on it: the consumer, which reads new entries with XREADGROUP, and the   *)
(* PendingRecoverer, which lists entries that have been pending too long   *)
(* (XPENDING), takes them over (XCLAIM), retries them and eventually gives *)
(* up.  Both call the same handle(); both run in one process and           *)
(* interleave at every await.                                              *)
(*                                                                         *)
(* This module holds what every worker of the system shares: the group,    *)
(* the two loops, the ledger and its retry counter.  A component extends   *)
(* it with its own handle() and give_up(), which take over while at[w] is  *)
(* "handle" (and positions of the component's own) or "giveup".            *)
(***************************************************************************)
EXTENDS Naturals, Sequences, FiniteSets, Ledger

CONSTANTS
    Events,      \* events published to the stream, each with its event_id
    Ours,        \* those of them handle() does not skip without a record
    Garbage,     \* an entry EventEnvelope.from_redis cannot parse
    BatchSize,   \* count of XREADGROUP and XPENDING
    MaxRetries,  \* PENDING_MAX_RETRIES
    MaxEntries,  \* bound: entries ever added to the stream
    MaxFaults    \* bound: crashes and failed Redis, database or SMTP calls

ASSUME GroupAssumption ==
    /\ Ours \subseteq Events
    /\ Garbage \notin Events
    /\ BatchSize \in Nat \ {0}
    /\ MaxRetries \in Nat \ {0}
    /\ MaxEntries \in Nat
    /\ MaxFaults \in Nat

VARIABLES
    stream,     \* the entries; an entry's id is its position
    delivered,  \* last-delivered-id of the group
    pel,        \* ids delivered and not acknowledged
    idle,       \* those of them pending for longer than PENDING_TIMEOUT_MS
    at,         \* where each task is
    cur,        \* the entry it is working on
    todo,       \* the entries of its batch still to come
    ledger,     \* the group's processed_events rows, by event
    faults      \* faults so far

groupVars == <<stream, delivered, pel, idle, at, cur, todo, ledger, faults>>

Workers == {"consumer", "recoverer"}

EntryIds == 1 .. MaxEntries

NoEntry == 0

\* Where a task can be: in its loop, or inside a call of handle().
HandlePlaces == {"handle", "decide", "deliver", "record"}
Places == {"loop", "claim", "count", "giveup", "ack"} \cup HandlePlaces

----------------------------------------------------------------------------
(* Helpers.                                                                *)

Entry(m) == stream[m]

Working(w, place) == at[w] = place

\* The event of the entry w holds.
Event(w) == Entry(cur[w])

\* The n lowest ids of a set of ids.
Lowest(n, ids) == {m \in ids : Cardinality({k \in ids : k < m}) < n}

Fault == /\ faults < MaxFaults
         /\ faults' = faults + 1

NoFault == UNCHANGED faults

\* Move w to place, within its handling of cur[w].
Goto(w, place) == /\ at' = [at EXCEPT ![w] = place]
                  /\ UNCHANGED <<cur, todo>>

\* Done with cur[w]: on to the rest of the batch.
NextMessage(w) == /\ at' = [at EXCEPT ![w] = "loop"]
                  /\ cur' = [cur EXCEPT ![w] = NoEntry]
                  /\ UNCHANGED todo

\* An exception reached run_forever: the rest of the batch is forgotten, and
\* its entries stay in the pending list.
Abandon(w) == /\ at' = [at EXCEPT ![w] = "loop"]
              /\ cur' = [cur EXCEPT ![w] = NoEntry]
              /\ todo' = [todo EXCEPT ![w] = {}]

\* Mutant: the consumer acknowledges in a finally clause.
RaiseAcks(w) == Goto(w, IF w = "consumer" THEN "ack" ELSE "count")

\* handle() raised: nobody catches it around the consumer's loop, the
\* recoverer counts it as a failed attempt.
Raise(w) == IF w = "consumer" THEN Abandon(w) ELSE Goto(w, "count")

\* Mutant: only an exception counts as a failed attempt.
NotHandledUncounted(w) == NextMessage(w)

\* handle() returned False: the consumer leaves the entry pending and goes on.
NotHandled(w) == IF w = "consumer" THEN NextMessage(w) ELSE Goto(w, "count")

UNCHANGED_group == UNCHANGED <<stream, delivered, pel, idle>>

----------------------------------------------------------------------------
GroupInit ==
    /\ stream = <<>>
    /\ delivered = 0
    /\ pel = {}
    /\ idle = {}
    /\ at = [w \in Workers |-> "loop"]
    /\ cur = [w \in Workers |-> NoEntry]
    /\ todo = [w \in Workers |-> {}]
    /\ ledger = [e \in Events |-> NoRow]
    /\ faults = 0

(***************************************************************************)
(* Another service's outbox publisher adds an entry.  It publishes at      *)
(* least once, so an event may be added again at any time; an entry nobody *)
(* can parse may be among them.                                            *)
(***************************************************************************)
XAdd(e) ==
    /\ Len(stream) < MaxEntries
    /\ stream' = Append(stream, e)
    /\ UNCHANGED <<delivered, pel, idle, at, cur, todo, ledger, faults>>

\* The last entry of a full batch, or of the stream.
LastOfBatch == IF delivered + BatchSize <= Len(stream)
                 THEN delivered + BatchSize
                 ELSE Len(stream)

(***************************************************************************)
(* read(): XREADGROUP hands the consumer the next entries and puts them in *)
(* the pending list.  One entry that does not parse makes read() raise     *)
(* with the whole batch already pending, and so does a lost reply.         *)
(***************************************************************************)
Read ==
    /\ Working("consumer", "loop")
    /\ todo["consumer"] = {}
    /\ delivered < Len(stream)
    /\ delivered' = LastOfBatch
    /\ LET batch == delivered + 1 .. LastOfBatch IN
         /\ pel' = pel \cup batch
         /\ \/ /\ \A m \in batch : Entry(m) # Garbage
               /\ todo' = [todo EXCEPT !["consumer"] = batch]
               /\ NoFault
            \/ /\ \E m \in batch : Entry(m) = Garbage
               /\ NoFault /\ UNCHANGED todo
            \/ Fault /\ UNCHANGED todo
    /\ UNCHANGED <<stream, idle, at, cur, ledger>>

\* Mutant: an entry that does not parse is skipped.
SkipGarbage(m) == IF Entry(m) = Garbage THEN "loop" ELSE "handle"

\* The recoverer discards what it cannot parse.
FirstPlace(m) == IF Entry(m) = Garbage THEN "ack" ELSE "handle"

\* The next entry of the batch.
Begin(w) ==
    /\ Working(w, "loop")
    /\ \E m \in todo[w] :
         /\ \A k \in todo[w] : m <= k
         /\ cur' = [cur EXCEPT ![w] = m]
         /\ todo' = [todo EXCEPT ![w] = @ \ {m}]
         /\ at' = [at EXCEPT ![w] = FirstPlace(m)]
    /\ UNCHANGED <<stream, delivered, pel, idle, ledger, faults>>

\* XACK; when the call fails, the entry may or may not have been removed.
Ack(w) ==
    /\ Working(w, "ack")
    /\ \/ /\ pel' = pel \ {cur[w]}
          /\ idle' = idle \ {cur[w]}
          /\ NextMessage(w)
          /\ NoFault
       \/ /\ \/ pel' = pel \ {cur[w]} /\ idle' = idle \ {cur[w]}
             \/ UNCHANGED <<pel, idle>>
          /\ Abandon(w)
          /\ Fault
    /\ UNCHANGED <<stream, delivered, ledger>>

----------------------------------------------------------------------------
(* The recoverer's sweep.                                                  *)

\* get_pending(): the oldest entries idle for PENDING_TIMEOUT_MS.
GetPending ==
    /\ Working("recoverer", "loop")
    /\ todo["recoverer"] = {}
    /\ idle # {}
    /\ todo' = [todo EXCEPT !["recoverer"] = Lowest(BatchSize, idle)]
    /\ at' = [at EXCEPT !["recoverer"] = "claim"]
    /\ UNCHANGED <<stream, delivered, pel, idle, cur, ledger, faults>>

(***************************************************************************)
(* claim(): XCLAIM with the same idle time takes the entries that are      *)
(* still pending and still idle, and restarts their idle clock.  An entry  *)
(* the consumer acknowledged since the listing is skipped.                 *)
(***************************************************************************)
Claim ==
    /\ Working("recoverer", "claim")
    /\ LET claimed == todo["recoverer"] \cap idle IN
         \/ /\ todo' = [todo EXCEPT !["recoverer"] = claimed]
            /\ idle' = idle \ claimed
            /\ at' = [at EXCEPT !["recoverer"] = "loop"]
            /\ UNCHANGED cur
            /\ NoFault
         \/ /\ idle' \in {idle, idle \ claimed}
            /\ Abandon("recoverer")
            /\ Fault
    /\ UNCHANGED <<stream, delivered, pel, ledger>>

\* increment_fail_count() of the failed event, committed on its own.
CountFailure ==
    ledger' = [ledger EXCEPT ![Event("recoverer")] = increment_fail_count(@)]

(***************************************************************************)
(* A failed attempt is counted.  A terminal row means another attempt      *)
(* finished the event: ack.  Below the limit the entry is left pending.    *)
(* The call is outside any try block: when it fails the sweep is aborted,  *)
(* and the increment may or may not have been committed.                   *)
(***************************************************************************)
Count ==
    /\ Working("recoverer", "count")
    /\ LET row == ledger[Event("recoverer")]
           fail_count == increment_fail_count(row).fail_count
       IN
         \/ /\ CountFailure
            /\ NoFault
            /\ \/ is_processed(row) /\ Goto("recoverer", "ack")
               \/ /\ ~is_processed(row)
                  /\ should_give_up(fail_count, MaxRetries)
                  /\ Goto("recoverer", "giveup")
               \/ /\ ~is_processed(row)
                  /\ ~should_give_up(fail_count, MaxRetries)
                  /\ NextMessage("recoverer")
         \/ /\ CountFailure \/ UNCHANGED ledger
            /\ Abandon("recoverer")
            /\ Fault
    /\ UNCHANGED_group

----------------------------------------------------------------------------
(* Environment.                                                            *)

\* An entry has been pending for PENDING_TIMEOUT_MS, whoever works on it.
Elapse(m) ==
    /\ m \in pel \ idle
    /\ idle' = idle \cup {m}
    /\ UNCHANGED <<stream, delivered, pel, at, cur, todo, ledger, faults>>

\* The process dies and comes back: Redis and Postgres keep their state.
Crash ==
    /\ Fault
    /\ at' = [w \in Workers |-> "loop"]
    /\ cur' = [w \in Workers |-> NoEntry]
    /\ todo' = [w \in Workers |-> {}]
    /\ UNCHANGED <<stream, delivered, pel, idle, ledger>>

----------------------------------------------------------------------------
\* The steps of w that belong to the loops every worker shares.
LoopStep(w) ==
    \/ Begin(w)
    \/ Ack(w)
    \/ w = "consumer" /\ Read
    \/ w = "recoverer" /\ (GetPending \/ Claim \/ Count)

EnvironmentStep ==
    \/ \E e \in Events \cup {Garbage} : XAdd(e)
    \/ \E m \in EntryIds : Elapse(m)
    \/ Crash

\* Entries the group was handed and has acknowledged.
Acked == (1 .. delivered) \ pel

----------------------------------------------------------------------------
(* The type of the state, and where the group's ids can be: pending        *)
(* entries were delivered, idle ones are pending, and a task only holds    *)
(* delivered ones.                                                         *)

StreamTypeOK ==
    /\ stream \in Seq(Events \cup {Garbage})
    /\ Len(stream) <= MaxEntries
    /\ delivered \in 0 .. Len(stream)
    /\ pel \subseteq 1 .. delivered
    /\ idle \subseteq pel

TasksTypeOK ==
    /\ at \in [Workers -> Places]
    /\ cur \in [Workers -> 0 .. delivered]
    /\ todo \in [Workers -> SUBSET (1 .. delivered)]

GroupTypeOK ==
    /\ StreamTypeOK
    /\ TasksTypeOK
    /\ ledger \in [Events -> Row]
    /\ faults \in 0 .. MaxFaults

----------------------------------------------------------------------------
(* What every worker keeps, as far as the group and the ledger tell.       *)

Finished(e) == is_processed(ledger[e])

\* An entry nobody needs to look at again: garbage, skipped, or finished.
Settled(m) == Entry(m) \in Ours => Finished(Entry(m))

\* No event is lost: whatever left the pending list is settled, although the
\* consumer forgets batches, replies are lost and the process crashes.
NothingLost == \A m \in Acked : Settled(m)

\* The recoverer gives up only after the configured number of counted attempts.
GiveUpAfterMaxRetries ==
    \A e \in Events :
        ledger[e].status = "FAILED_PERMANENT" => ledger[e].fail_count >= MaxRetries

\* Retrying is bounded: an event is not attempted beyond the limit but for the
\* attempts a crash or a failed call made void.
RetriesBounded ==
    \A e \in Events : ledger[e].fail_count <= MaxRetries + faults

\* Every entry is eventually acknowledged: what an abandoned batch strands, a
\* garbage entry, a malformed event and one whose dependency stays down.
EntryResolved ==
    \A m \in EntryIds : m <= Len(stream) ~> m \in Acked

----------------------------------------------------------------------------
(* The invariant behind them: what a task knows of the entry it holds,     *)
(* wherever it is in handling it.                                          *)

Holding(w) == at[w] \notin {"loop", "claim"}

\* Garbage never reaches handle(), only events of ours get past its first
\* check, and the recoverer alone counts and gives up.
HoldsEntry ==
    \A w \in Workers :
        /\ Holding(w) => cur[w] \in 1 .. delivered
        /\ at[w] = "handle" => Event(w) \in Events
        /\ at[w] \in {"decide", "deliver", "record", "count", "giveup"} => Event(w) \in Ours
        /\ at[w] \in {"count", "giveup"} => w = "recoverer"

\* XACK is only called for a settled entry.
AcksSettled == \A w \in Workers : at[w] = "ack" => Settled(cur[w])

GivingUp(e) == Working("recoverer", "giveup") /\ Event("recoverer") = e

\* give_up() is only called after the last allowed attempt.
GivesUpExhausted ==
    \A e \in Events : GivingUp(e) => ledger[e].fail_count >= MaxRetries

\* An open event has attempts left, unless it is being given up.
AttemptsLeft ==
    \A e \in Events :
        Finished(e) \/ GivingUp(e) \/ ledger[e].fail_count < MaxRetries + faults

GroupInv ==
    /\ HoldsEntry
    /\ AcksSettled
    /\ NothingLost
    /\ GivesUpExhausted
    /\ GiveUpAfterMaxRetries
    /\ AttemptsLeft
    /\ RetriesBounded
=============================================================================
