------------------------------- MODULE Ledger -------------------------------
(***************************************************************************)
(* The idempotency ledger: one processed_events row per (event, consumer   *)
(* group), which every consumer consults before working and writes in the  *)
(* transaction that records its work.  The operators are the repository's  *)
(* four statements, as functions from the row a statement finds to the row *)
(* it leaves.  A row that was never inserted is NoRow: an insert and the   *)
(* ON CONFLICT DO UPDATE of the same statement then differ in nothing the  *)
(* model can see, because every insert writes the value the update         *)
(* produces from fail_count = 0.                                           *)
(***************************************************************************)
EXTENDS Naturals

ProcessedStatus == {"PROCESSED", "FAILING", "FAILED_PERMANENT"}

Terminal == {"PROCESSED", "FAILED_PERMANENT"}

Row == [status : ProcessedStatus \cup {"ABSENT"}, fail_count : Nat]

NoRow == [status |-> "ABSENT", fail_count |-> 0]

is_processed(row) == row.status \in Terminal

\* The upsert touches the status alone: fail_count keeps its history.
mark_processed(row) == [row EXCEPT !.status = "PROCESSED"]

\* Mutants: the statement without its WHERE clause, and one that writes the
\* inserted count on conflict too.
increment_reopens(row) == [status |-> "FAILING", fail_count |-> row.fail_count + 1]
increment_restarts(row) ==
    IF is_processed(row) THEN row ELSE [status |-> "FAILING", fail_count |-> 1]

\* WHERE status = FAILING: a terminal row is left as it is, and the statement
\* returns no count (reported by is_processed of the row it found).
increment_fail_count(row) ==
    IF is_processed(row)
      THEN row
      ELSE [status |-> "FAILING", fail_count |-> row.fail_count + 1]

\* Mutant: the status of a delivery row, not of a ledger row.
mark_failed(row) == [row EXCEPT !.status = "FAILED"]

mark_failed_permanent(row) == [row EXCEPT !.status = "FAILED_PERMANENT"]

\* Mutants: off by one, either way.
give_up_early(fail_count, max_retries) == fail_count + 1 >= max_retries
give_up_late(fail_count, max_retries) == fail_count > max_retries

should_give_up(fail_count, max_retries) == fail_count >= max_retries
=============================================================================
