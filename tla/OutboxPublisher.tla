--------------------------- MODULE OutboxPublisher ---------------------------
(***************************************************************************)
(* The outbox of one service and the task that empties it.  A service      *)
(* commits an event as an outbox row together with the state it announces; *)
(* the publisher adds the rows to their streams and marks them afterwards. *)
(* Redis and Postgres do not share a transaction, so whatever fails in     *)
(* between makes the publisher add the same rows again.                    *)
(***************************************************************************)
EXTENDS Naturals, FiniteSets

CONSTANTS
    MaxRows,    \* bound: outbox rows ever written
    BatchSize,  \* OUTBOX_BATCH_SIZE
    MaxFaults   \* bound: crashes and failed Redis or database calls

ASSUME OutboxAssumption ==
    /\ MaxRows \in Nat
    /\ BatchSize \in Nat \ {0}
    /\ MaxFaults \in Nat

\* A row is named by its place in the order of created_at.
Rows == 1 .. MaxRows

VARIABLES
    committed,  \* rows other transactions can see
    published,  \* rows marked published
    copies,     \* entries of the streams, per row they were made from
    at,         \* where publish_once() is
    batch,      \* rows it has read and not yet added
    done,       \* published_ids: rows it has added
    faults      \* faults so far

vars == <<committed, published, copies, at, batch, done, faults>>

Fault == faults < MaxFaults /\ faults' = faults + 1

\* Mutant: the marked rows are not filtered out.
AllRows == committed

Pending == committed \ published

\* Mutant: the publisher resumes after the last row it has marked.
AfterLast(n, rows) ==
    {r \in rows : /\ \A p \in published : p < r
                  /\ Cardinality({k \in rows : k < r}) < n}

\* The n oldest of the rows.
Oldest(n, rows) == {r \in rows : Cardinality({k \in rows : k < r}) < n}

\* publish_once() raised, or the process died: the session is rolled back.
Abandon == /\ at' = "poll"
           /\ batch' = {}
           /\ done' = {}

Init ==
    /\ committed = {}
    /\ published = {}
    /\ copies = [r \in Rows |-> 0]
    /\ at = "poll"
    /\ batch = {}
    /\ done = {}
    /\ faults = 0

(***************************************************************************)
(* OutboxRepository.save(), committed with the service's own change.       *)
(* created_at is the time the transaction began: rows need not become      *)
(* visible in that order.                                                  *)
(***************************************************************************)
Save(r) ==
    /\ r \notin committed
    /\ committed' = committed \cup {r}
    /\ UNCHANGED <<published, copies, at, batch, done, faults>>

\* get_pending(): a batch of the oldest unmarked rows.
GetPending ==
    /\ at = "poll"
    /\ Pending # {}
    /\ batch' = Oldest(BatchSize, Pending)
    /\ done' = {}
    /\ at' = "publish"
    /\ UNCHANGED <<committed, published, copies, faults>>

Add(r) == copies' = [copies EXCEPT ![r] = @ + 1]

(***************************************************************************)
(* XADD of the next row.  When the call fails the entry may exist          *)
(* nonetheless, and no row of the batch will be marked.                    *)
(***************************************************************************)
Publish(r) ==
    /\ at = "publish"
    /\ r \in batch
    /\ \A k \in batch : r <= k
    /\ \/ /\ Add(r)
          /\ batch' = batch \ {r}
          /\ done' = done \cup {r}
          /\ at' = IF batch = {r} THEN "mark" ELSE "publish"
          /\ UNCHANGED faults
       \/ /\ Add(r) \/ UNCHANGED copies
          /\ Abandon
          /\ Fault
    /\ UNCHANGED <<committed, published>>

\* Mutants: every row of the table is marked, or none.
MarkAll == published' = committed
MarkNothing == UNCHANGED published

\* mark_published() and the commit.
Mark == published' = published \cup done

\* The mark is committed, or its commit fails and may have succeeded.
MarkPublished ==
    /\ at = "mark"
    /\ \/ Mark /\ UNCHANGED faults
       \/ (Mark \/ UNCHANGED published) /\ Fault
    /\ Abandon
    /\ UNCHANGED <<committed, copies>>

Crash ==
    /\ Fault
    /\ Abandon
    /\ UNCHANGED <<committed, published, copies>>

\* run_forever(): one publish_once() after another.
PublisherStep == GetPending \/ (\E r \in Rows : Publish(r)) \/ MarkPublished

Next == PublisherStep \/ Crash \/ \E r \in Rows : Save(r)

Spec == Init /\ [][Next]_vars

\* run_forever() swallows exceptions and never returns.
FairSpec == Spec /\ WF_vars(PublisherStep)

----------------------------------------------------------------------------
(* Properties.                                                             *)

TypeOK ==
    /\ committed \subseteq Rows
    /\ published \subseteq committed
    /\ copies \in [Rows -> Nat]
    /\ at \in {"poll", "publish", "mark"}
    /\ batch \subseteq committed \ published
    /\ done \subseteq committed \ published
    /\ faults \in 0 .. MaxFaults

\* A row is added again at most once per fault.
DuplicatesBounded == \A r \in Rows : copies[r] <= faults + 1

\* Rows whose last copy no fault has made void.
Counted == done \cup published

\* The entries the publisher made, each as the k-th copy of its row.
Entries == UNION {{r} \X (1 .. copies[r]) : r \in Rows}

\* One failure can repeat a whole batch, never more: the entries beyond one
\* per row the publisher has added are at most a batch per fault.
RepeatsBounded == Cardinality(Entries) <= Cardinality(Counted) + faults * BatchSize

\* The publisher seen from the streams' consumers.
Promise == INSTANCE AtLeastOnce
             WITH Items <- Rows, saved <- committed, entries <- copies, settled <- published

\* At least once, and never again: only committed rows are added; a row is
\* marked published only once it is in its stream, whatever call failed between
\* the XADD and the mark; and it is not added afterwards, not even by a batch
\* read before the mark.
AtLeastOnceDelivery == Promise!Spec

\* Every committed event reaches its stream and is eventually marked.
EventuallyPublished == \A r \in Rows : r \in committed ~> r \in published

----------------------------------------------------------------------------
(* The inductive invariant: what the batch in flight has added.            *)

\* A row was added before it is done or marked.
NeverLost == \A r \in Counted : copies[r] >= 1

\* An uncounted row has a copy for some of the faults, a counted one one more.
FaultsPay == \A r \in Rows : copies[r] <= faults + (IF r \in Counted THEN 1 ELSE 0)

\* What was added of a batch and what is left of it are at most BatchSize rows.
BatchFits ==
    /\ batch \cap done = {}
    /\ at = "poll" => batch = {} /\ done = {}
    /\ Cardinality(batch) + Cardinality(done) <= BatchSize

IInv ==
    /\ TypeOK
    /\ NeverLost
    /\ FaultsPay
    /\ BatchFits
    /\ RepeatsBounded
=============================================================================
