----------------------------- MODULE LedgerView -----------------------------
(***************************************************************************)
(* What one job's ledger rows mean: the latest-wins fold and the           *)
(* reconciler's decision, from ledger.rs, status.rs and reconcile.rs of    *)
(* zenfleet-core.  These are pure operators; JobLedger runs them.          *)
(***************************************************************************)
EXTENDS Naturals

CONSTANTS
  MaxAttempts,   \* RetryPolicy::max_attempts
  TTL,           \* RetryPolicy::stale_claim_after, the claim TTL in seconds
  NoRow          \* the job has no row in the view

Statuses == {"Pending", "Claimed", "Failed", "Poison", "Done"}

rank == [Pending |-> 0, Claimed |-> 1, Failed |-> 2, Poison |-> 3, Done |-> 4]

\* The ordering of two rows by time, then by status.
Newer(row, cur) ==
  \/ row.ts > cur.ts
  \/ row.ts = cur.ts /\ rank[row.status] > rank[cur.status]

\* Does a row replace the one the view holds?
Keeps(cur, row) ==
  CASE cur.status = "Done" /\ row.status = "Poison" -> FALSE
    [] cur.status = "Poison" /\ row.status = "Done" -> TRUE
    [] OTHER -> Newer(row, cur)

apply__last(cur, row) == row
\* LedgerView::apply
apply(cur, row) == IF cur = NoRow \/ Keeps(cur, row) THEN row ELSE cur

RetryDue__off(row) == row.transient /\ row.attempts <= MaxAttempts
RetryDue__early(row) == row.transient /\ row.attempts + 1 < MaxAttempts
RetryDue(row) == row.transient /\ row.attempts < MaxAttempts

\* In which part of the plan the job lands, at the reconciler's clock.
reconcile_at(row, clock) ==
  IF row = NoRow THEN "enqueue"
  ELSE CASE row.status = "Done" -> "done"
         [] row.status = "Poison" -> "already_poison"
         [] row.status = "Failed" -> IF RetryDue(row) THEN "enqueue" ELSE "poison"
         [] OTHER -> IF clock >= row.ts + TTL THEN "enqueue" ELSE "in_flight"
=============================================================================
