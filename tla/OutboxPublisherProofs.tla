----------------------- MODULE OutboxPublisherProofs -----------------------
(***************************************************************************)
(* At-least-once publication, for any number of rows, batch size and       *)
(* faults, and how much is published twice.                                *)
(***************************************************************************)
EXTENDS OutboxPublisher, FiniteSetTheorems, TLAPS

----------------------------------------------------------------------------
(* Sets of rows, and of entries.                                           *)

LEMMA RowsFinite ==
    ASSUME NEW S \in SUBSET Rows
    PROVE  IsFiniteSet(S) /\ Cardinality(S) \in Nat
<1>1. IsFiniteSet(Rows)
  BY OutboxAssumption, FS_Interval DEF Rows
<1> QED
  BY <1>1, FS_Subset, FS_CardinalityType

\* A set of rows that is not empty has a newest one.
LEMMA NewestRow ==
    ASSUME NEW S \in SUBSET Rows, S # {}
    PROVE  \E m \in S : \A k \in S : k <= m
<1> DEFINE age(k) == MaxRows - k
           Ages == {n \in Nat : \E k \in S : n = age(k)}
<1>1. \A k \in S : k \in Nat /\ k <= MaxRows /\ age(k) \in Nat
  BY OutboxAssumption DEF Rows
<1>2. Ages \subseteq Nat /\ Ages # {}
  BY <1>1
<1>3. PICK n \in Ages : \A a \in Ages : ~(<<a, n>> \in OpToRel(<, Nat))
  <2> HIDE DEF Ages
  <2> QED
    BY <1>2, WFMin, NatLessThanWellFounded
<1>4. PICK m \in S : n = age(m)
  OBVIOUS
<1>5. ASSUME NEW k \in S PROVE k <= m
  <2>1. age(k) \in Ages /\ age(k) \in Nat /\ n \in Nat
    BY <1>1
  <2>2. ~(age(k) < n)
    <3> HIDE DEF age
    <3> QED
      BY <1>3, <2>1 DEF OpToRel
  <2> QED
    BY <1>1, <1>4, <2>2, OutboxAssumption
<1> QED
  BY <1>5

\* get_pending() returns at most a batch, of pending rows.
LEMMA OldestSize ==
    ASSUME NEW n \in Nat, NEW rows \in SUBSET Rows
    PROVE  Oldest(n, rows) \subseteq rows /\ Cardinality(Oldest(n, rows)) <= n
<1> DEFINE S == Oldest(n, rows)
<1>1. S \subseteq rows /\ S \in SUBSET Rows
  BY DEF Oldest
<1>2. CASE S = {}
  BY <1>1, <1>2, FS_EmptySet
<1>3. CASE S # {}
  <2>1. PICK m \in S : \A k \in S : k <= m
    BY <1>1, <1>3, NewestRow
  <2> DEFINE Older == {k \in rows : k < m}
  <2>2. Cardinality(Older) < n
    BY <2>1 DEF Oldest
  <2>3. S \ {m} \in SUBSET Older
    BY <1>1, <2>1, OutboxAssumption DEF Rows
  <2>4. IsFiniteSet(Older) /\ Cardinality(Older) \in Nat /\ IsFiniteSet(S) /\ Cardinality(S) \in Nat
    <3>1. Older \in SUBSET Rows
      OBVIOUS
    <3> QED
      BY <1>1, <3>1, RowsFinite
  <2>5. Cardinality(S \ {m}) <= Cardinality(Older)
    BY <2>3, <2>4, FS_Subset
  <2>6. Cardinality(S \ {m}) = Cardinality(S) - 1
    BY <2>1, <2>4, FS_RemoveElement
  <2> QED
    BY <1>1, <2>2, <2>4, <2>5, <2>6
<1> QED
  BY <1>2, <1>3

\* The entries are finitely many, and one more copy is one more entry.
LEMMA EntriesFinite ==
    ASSUME IInv
    PROVE  IsFiniteSet(Entries) /\ Cardinality(Entries) \in Nat
<1>1. faults \in Nat /\ \A r \in Rows : copies[r] \in Nat /\ copies[r] <= faults + 1
  BY OutboxAssumption DEF IInv, TypeOK, FaultsPay
<1>2. Entries \in SUBSET (Rows \X (1 .. faults + 1))
  <2> SUFFICES ASSUME NEW x \in Entries PROVE x \in Rows \X (1 .. faults + 1)
    OBVIOUS
  <2>1. PICK r \in Rows : x \in {r} \X (1 .. copies[r])
    BY DEF Entries
  <2> QED
    BY <1>1, <2>1
<1>3. IsFiniteSet(Rows) /\ IsFiniteSet(1 .. faults + 1)
  BY <1>1, OutboxAssumption, FS_Interval DEF Rows
<1> QED
  BY <1>2, <1>3, FS_Product, FS_Subset, FS_CardinalityType

LEMMA EntriesAre ==
    ASSUME NEW c \in [Rows -> Nat], NEW x
    PROVE  x \in UNION {{k} \X (1 .. c[k]) : k \in Rows} <=>
             \E k \in Rows, n \in Nat : x = <<k, n>> /\ 1 <= n /\ n <= c[k]
<1>1. x \in UNION {{k} \X (1 .. c[k]) : k \in Rows} <=> \E k \in Rows : x \in {k} \X (1 .. c[k])
  OBVIOUS
<1>2. ASSUME NEW k \in Rows
      PROVE  x \in {k} \X (1 .. c[k]) <=> \E n \in Nat : x = <<k, n>> /\ 1 <= n /\ n <= c[k]
  OBVIOUS
<1> QED
  BY <1>1, <1>2

LEMMA OneMoreEntry ==
    ASSUME IInv, NEW r \in Rows, Add(r)
    PROVE  Cardinality(Entries') = Cardinality(Entries) + 1
<1>1. copies \in [Rows -> Nat] /\ copies' = [copies EXCEPT ![r] = copies[r] + 1]
  BY DEF IInv, TypeOK, Add
<1> DEFINE new == <<r, copies[r] + 1>>
<1>2. \A x : x \in Entries <=> \E k \in Rows, n \in Nat : x = <<k, n>> /\ 1 <= n /\ n <= copies[k]
  BY <1>1, EntriesAre DEF Entries
<1>3. \A x : x \in Entries' <=> \E k \in Rows, n \in Nat : x = <<k, n>> /\ 1 <= n /\ n <= copies'[k]
  <2>1. copies' \in [Rows -> Nat]
    BY <1>1
  <2> QED
    BY <2>1, EntriesAre DEF Entries
<1>4. copies[r] \in Nat /\ new \notin Entries
  BY <1>1, <1>2
<1>5. Entries' = Entries \cup {new}
  <2>1. ASSUME NEW x \in Entries PROVE x \in Entries'
    <3>1. PICK k \in Rows, n \in Nat : x = <<k, n>> /\ 1 <= n /\ n <= copies[k]
      BY <1>2, <2>1
    <3>2. copies[k] \in Nat /\ copies'[k] \in Nat /\ copies[k] <= copies'[k]
      BY <1>1
    <3> QED
      BY <1>3, <3>1, <3>2
  <2>2. new \in Entries'
    BY <1>1, <1>3, <1>4
  <2>3. ASSUME NEW x \in Entries', x \notin Entries PROVE x = new
    <3>1. PICK k \in Rows, n \in Nat : x = <<k, n>> /\ 1 <= n /\ n <= copies'[k]
      BY <1>3, <2>3
    <3>2. ~(n <= copies[k])
      BY <1>2, <2>3, <3>1
    <3> QED
      BY <1>1, <1>4, <3>1, <3>2
  <2> QED
    BY <2>1, <2>2, <2>3
<1> QED
  BY <1>4, <1>5, EntriesFinite, FS_AddElement

----------------------------------------------------------------------------
(* The invariant.                                                          *)

LEMMA InvInit == Init => IInv
<1> SUFFICES ASSUME Init PROVE IInv
  OBVIOUS
<1>1. TypeOK
  BY OutboxAssumption DEF Init, TypeOK
<1>2. NeverLost /\ FaultsPay
  BY DEF Init, NeverLost, FaultsPay, Counted
<1>3. BatchFits
  BY OutboxAssumption, FS_EmptySet DEF Init, BatchFits
<1>4. Counted = {} /\ Entries = {}
  BY DEF Init, Counted, Entries
<1>5. RepeatsBounded
  BY <1>4, OutboxAssumption, FS_EmptySet DEF Init, RepeatsBounded
<1> QED
  BY <1>1, <1>2, <1>3, <1>5 DEF IInv

\* What the cardinalities of the invariant are, and that a batch in flight is
\* what a fault makes void.
LEMMA Sizes ==
    ASSUME IInv
    PROVE  /\ IsFiniteSet(Counted) /\ Cardinality(Counted) \in Nat
           /\ IsFiniteSet(batch) /\ Cardinality(batch) \in Nat
           /\ IsFiniteSet(done) /\ Cardinality(done) \in Nat
           /\ IsFiniteSet(published) /\ Cardinality(published) \in Nat
           /\ Cardinality(Counted) = Cardinality(published) + Cardinality(done)
           /\ Cardinality(Entries) \in Nat
           /\ faults \in Nat
           /\ faults * BatchSize \in Nat
<1>1. /\ done \in SUBSET Rows /\ published \in SUBSET Rows /\ batch \in SUBSET Rows
      /\ Counted \in SUBSET Rows /\ done \cap published = {}
      /\ faults \in Nat
  BY OutboxAssumption DEF IInv, TypeOK, Counted
<1>2. faults * BatchSize \in Nat
  BY <1>1, OutboxAssumption
<1>3. Cardinality(Counted) = Cardinality(published) + Cardinality(done)
  <2>1. Cardinality(done \cap published) = 0
    BY <1>1, FS_EmptySet
  <2>2. IsFiniteSet(done) /\ IsFiniteSet(published)
    BY <1>1, RowsFinite
  <2>3. Cardinality(done) \in Nat /\ Cardinality(published) \in Nat
    BY <2>2, FS_CardinalityType
  <2>4. Cardinality(done \cup published) =
          Cardinality(done) + Cardinality(published) - Cardinality(done \cap published)
    BY <2>2, FS_Union
  <2> QED
    BY <2>1, <2>3, <2>4 DEF Counted
<1> QED
  BY <1>1, <1>2, <1>3, RowsFinite, EntriesFinite

\* A fault makes the batch's copies void, and pays for one more of each: of
\* those it had added, and of the one it may have been adding.
LEMMA FaultVoids ==
    ASSUME IInv, Abandon, Fault, UNCHANGED committed,
           published' = published \/ published' = published \cup done,
           \/ UNCHANGED copies
           \/ \E r \in batch : Add(r)
    PROVE  IInv'
<1>1. faults \in Nat /\ faults' = faults + 1 /\ faults' \in 0 .. MaxFaults
  BY OutboxAssumption DEF IInv, TypeOK, Fault
<1>2. /\ copies \in [Rows -> Nat] /\ copies' \in [Rows -> Nat]
      /\ \A r \in Rows : \/ copies'[r] = copies[r]
                         \/ r \notin Counted /\ copies'[r] = copies[r] + 1
  BY DEF IInv, TypeOK, BatchFits, Counted, Add
<1>3. TypeOK'
  BY <1>1, <1>2 DEF IInv, TypeOK, Abandon
<1>4. published \subseteq Counted' /\ Counted' \subseteq Counted /\ Counted \in SUBSET Rows
  BY DEF IInv, TypeOK, Abandon, Counted
<1>5. NeverLost'
  BY <1>2, <1>4 DEF IInv, NeverLost
<1>6. FaultsPay'
  BY <1>1, <1>2, <1>4 DEF IInv, FaultsPay
<1>7. BatchFits'
  BY OutboxAssumption, FS_EmptySet DEF Abandon, BatchFits
<1>8. RepeatsBounded'
  <2>1. /\ Cardinality(published) <= Cardinality(Counted')
        /\ Cardinality(Counted') \in Nat
    BY <1>4, RowsFinite, FS_Subset
  <2>2. Cardinality(done) <= BatchSize
    BY Sizes, OutboxAssumption DEF IInv, BatchFits
  <2>3. faults' * BatchSize = faults * BatchSize + BatchSize
    BY <1>1, OutboxAssumption
  <2>4. CASE UNCHANGED copies
    <3>1. Entries' = Entries
      BY <2>4 DEF Entries
    <3> QED
      BY <2>1, <2>2, <2>3, <3>1, Sizes, OutboxAssumption DEF IInv, RepeatsBounded
  <2>5. ASSUME NEW r \in batch, Add(r) PROVE RepeatsBounded'
    <3>1. Cardinality(Entries') = Cardinality(Entries) + 1
      BY <2>5, OneMoreEntry DEF IInv, TypeOK
    <3>2. Cardinality(batch) # 0
      BY Sizes, FS_EmptySet
    <3>3. Cardinality(done) + 1 <= BatchSize
      BY <3>2, Sizes, OutboxAssumption DEF IInv, BatchFits
    <3> QED
      BY <2>1, <2>3, <3>1, <3>3, Sizes, OutboxAssumption DEF IInv, RepeatsBounded
  <2> QED
    BY <2>4, <2>5
<1> QED
  BY <1>3, <1>5, <1>6, <1>7, <1>8 DEF IInv

\* An entry was added, and its row is counted now.
LEMMA AddedInv ==
    ASSUME IInv, NEW r \in batch, Add(r), at = "publish",
           batch' = batch \ {r}, done' = done \cup {r}, at' \in {"mark", "publish"},
           UNCHANGED <<faults, committed, published>>
    PROVE  IInv'
<1>1. r \in committed \ published /\ r \in Rows /\ r \notin done
  BY DEF IInv, TypeOK, BatchFits
<1>2. Counted' = Counted \cup {r} /\ r \notin Counted
  BY <1>1 DEF Counted
<1>3. copies' = [copies EXCEPT ![r] = copies[r] + 1] /\ copies \in [Rows -> Nat]
  BY DEF IInv, TypeOK, Add
<1>4. TypeOK'
  BY <1>1, <1>3 DEF IInv, TypeOK
<1>5. faults \in Nat
  BY Sizes
<1>6. NeverLost' /\ FaultsPay'
  BY <1>1, <1>2, <1>3, <1>5 DEF IInv, TypeOK, NeverLost, FaultsPay, Counted
<1>7. /\ Cardinality(batch') = Cardinality(batch) - 1
      /\ Cardinality(done') = Cardinality(done) + 1
      /\ Cardinality(Counted') = Cardinality(Counted) + 1
  BY <1>1, <1>2, Sizes, FS_RemoveElement, FS_AddElement
<1>8. BatchFits'
  BY <1>7, Sizes, OutboxAssumption DEF IInv, BatchFits
<1>9. Cardinality(Entries') = Cardinality(Entries) + 1
  BY <1>1, OneMoreEntry
<1>10. RepeatsBounded'
  BY <1>7, <1>9, Sizes, OutboxAssumption DEF IInv, RepeatsBounded
<1> QED
  BY <1>4, <1>6, <1>8, <1>10 DEF IInv

\* The entries and the rows they are counted for stay what they are.
LEMMA NothingAdded ==
    ASSUME IInv, UNCHANGED <<copies, faults>>, Counted' = Counted, TypeOK', BatchFits'
    PROVE  IInv'
<1>1. Entries' = Entries
  BY DEF Entries
<1> QED
  BY <1>1 DEF IInv, NeverLost, FaultsPay, RepeatsBounded

LEMMA InvStep == IInv /\ [Next]_vars => IInv'
<1> SUFFICES ASSUME IInv, [Next]_vars PROVE IInv'
  OBVIOUS
<1>1. ASSUME NEW r \in Rows, Save(r) PROVE IInv'
  BY <1>1, NothingAdded DEF Save, IInv, TypeOK, BatchFits, Counted
<1>2. CASE GetPending
  <2>1. done = {} /\ done' = {} /\ Counted' = Counted
    BY <1>2 DEF GetPending, IInv, BatchFits, Counted
  <2>2. Pending \in SUBSET Rows /\ BatchSize \in Nat
    BY OutboxAssumption DEF Pending, IInv, TypeOK
  <2>3. batch' \subseteq committed \ published /\ Cardinality(batch') <= BatchSize
    BY <1>2, <2>2, OldestSize DEF GetPending, Pending
  <2>4. TypeOK'
    BY <1>2, <2>3 DEF GetPending, IInv, TypeOK
  <2>5. BatchFits'
    <3>1. Cardinality(batch') \in Nat
      BY <2>3, RowsFinite DEF IInv, TypeOK
    <3> QED
      BY <1>2, <2>1, <2>3, <3>1, FS_EmptySet, OutboxAssumption DEF GetPending, BatchFits
  <2> QED
    BY <1>2, <2>1, <2>4, <2>5, NothingAdded DEF GetPending
<1>3. ASSUME NEW r \in Rows, Publish(r) PROVE IInv'
  BY <1>3, AddedInv, FaultVoids DEF Publish
<1>4. CASE MarkPublished
  <2>1. CASE Mark /\ UNCHANGED faults
    <3>1. Counted' = Counted /\ TypeOK'
      BY <1>4, <2>1 DEF MarkPublished, Mark, Abandon, IInv, TypeOK, Counted
    <3>2. BatchFits'
      BY <1>4, FS_EmptySet, OutboxAssumption DEF MarkPublished, Abandon, BatchFits
    <3> QED
      BY <1>4, <2>1, <3>1, <3>2, NothingAdded DEF MarkPublished
  <2>2. CASE (Mark \/ UNCHANGED published) /\ Fault
    BY <1>4, <2>2, FaultVoids DEF MarkPublished, Mark
  <2> QED
    BY <1>4, <2>1, <2>2 DEF MarkPublished
<1>5. CASE Crash
  BY <1>5, FaultVoids DEF Crash
<1>6. CASE UNCHANGED vars
  BY <1>6, NothingAdded DEF vars, IInv, TypeOK, BatchFits, Counted
<1> QED
  BY <1>1, <1>2, <1>3, <1>4, <1>5, <1>6 DEF Next, PublisherStep

----------------------------------------------------------------------------
(* The theorems.                                                           *)

\* What the publisher has added and what it has marked stay in step.
THEOREM Invariant == Spec => []IInv
  BY InvInit, InvStep, PTL DEF Spec

\* The state of publish_once() is well typed: it works on unmarked rows only.
THEOREM TypeCorrect == Spec => []TypeOK
<1>1. IInv => TypeOK
  BY DEF IInv
<1> QED
  BY <1>1, Invariant, PTL

\* Consumers see an event at most once per fault beyond the first time.
THEOREM FewDuplicates == Spec => []DuplicatesBounded
<1>1. IInv => DuplicatesBounded
  BY OutboxAssumption DEF IInv, TypeOK, DuplicatesBounded, FaultsPay
<1> QED
  BY <1>1, Invariant, PTL

\* And all of them together, at most a batch per fault beyond one per event.
THEOREM FewRepeats == Spec => []RepeatsBounded
<1>1. IInv => RepeatsBounded
  BY DEF IInv
<1> QED
  BY <1>1, Invariant, PTL

\* A commit is a Save step of the promise, an XADD an Add step, whether or not
\* its call fails, and a commit of the mark a Settle step; the rest stutters.
LEMMA StepRefines == IInv /\ [Next]_vars => [Promise!Next]_Promise!vars
<1> SUFFICES ASSUME IInv, [Next]_vars PROVE [Promise!Next]_Promise!vars
  OBVIOUS
<1>1. ASSUME NEW r \in Rows, Save(r) PROVE Promise!Save(r)
  BY <1>1 DEF Save, Promise!Save
<1>2. ASSUME NEW r \in Rows, Publish(r) PROVE Promise!Add(r) \/ UNCHANGED Promise!vars
  <2>1. r \in committed \ published
    BY <1>2 DEF Publish, IInv, TypeOK
  <2> QED
    BY <1>2, <2>1 DEF Publish, Add, Promise!Add, Promise!vars
<1>3. ASSUME MarkPublished
      PROVE  \/ done \in SUBSET (committed \ published) /\ Promise!Settle(done)
             \/ UNCHANGED Promise!vars
  <2>1. /\ done \in SUBSET (committed \ published)
        /\ \A r \in done : copies[r] >= 1
    BY DEF IInv, TypeOK, NeverLost, Counted
  <2> QED
    BY <1>3, <2>1 DEF MarkPublished, Mark, Promise!Settle, Promise!vars
<1>4. CASE GetPending \/ Crash \/ UNCHANGED vars
  BY <1>4 DEF GetPending, Crash, vars, Promise!vars
<1> QED
  BY <1>1, <1>2, <1>3, <1>4 DEF Next, PublisherStep, Promise!Next

\* Every committed event is published at least once, none is marked before its
\* entry exists, and a marked one is never published again.
THEOREM ImplementsAtLeastOnce == Spec => AtLeastOnceDelivery
<1>1. Init => Promise!Init
  BY DEF Init, Promise!Init
<1> QED
  BY <1>1, StepRefines, Invariant, PTL DEF Spec, AtLeastOnceDelivery, Promise!Spec
=============================================================================
