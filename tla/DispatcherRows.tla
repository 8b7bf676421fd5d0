--------------------------- MODULE DispatcherRows ---------------------------
(***************************************************************************)
(* The row of dispatcher_tasks and what each writer makes of it: the       *)
(* commands of queue.py, services.py and leases.py, the expiry sweep, and  *)
(* the GitHub pull (upsert_synced_task).  Pure operators: which reads and  *)
(* writes share a transaction is the business of DispatcherLeases.         *)
(*                                                                         *)
(* Times are natural numbers and 0 stands for NULL.  A lease id is the     *)
(* position of the lease in the order of the grants, and 0 is NULL.        *)
(***************************************************************************)
EXTENDS Naturals

CONSTANT NoAgent     \* claimed_by IS NULL

NoLease == 0

\* "completed" stands for completed, done and failed, which no code tells apart.
Status == {"ready", "claimed", "in_progress", "blocked", "review", "completed"}
Terminal == {"completed"}

\* blocked: blocked_reason IS NOT NULL.  pull, invalid and fence are the
\* last_pull_at, ready_scan_invalidated_at and terminal_state_protected_at of
\* sync_state.
TaskRow(status, blocked, pull) ==
    [status |-> status, lease |-> NoLease, owner |-> NoAgent, blocked |-> blocked,
     pull |-> pull, invalid |-> 0, fence |-> 0]

\* The status a task without a lease goes back to.
UnleasedStatus(row) == IF row.blocked THEN "blocked" ELSE "ready"

Unleased(row) == [row EXCEPT !.lease = NoLease, !.owner = NoAgent]

Claimed(row, lease, agent) ==
    [row EXCEPT !.lease = lease, !.owner = agent, !.status = "claimed"]

\* complete: neither blocked_reason nor sync_state is touched.
Completed(row) == [Unleased(row) EXCEPT !.status = "completed"]

\* _move_task_to_review
InReview(row) == [Unleased(row) EXCEPT !.status = "review", !.blocked = FALSE]

\* release: the ready evidence goes, and the moment is kept.
Released(row, at) ==
    [Unleased(row) EXCEPT !.status = UnleasedStatus(row), !.pull = 0, !.invalid = at]

\* _reclaim_one: as release, but terminal work stays terminal, behind a fence.
Reclaimed(row, at) ==
    IF row.status \in Terminal
    THEN [Unleased(row) EXCEPT !.pull = 0, !.invalid = at, !.fence = at]
    ELSE Released(row, at)

Blocked(row) == [row EXCEPT !.status = "blocked", !.blocked = TRUE]

Unblocked(row) ==
    [row EXCEPT !.blocked = FALSE, !.status = IF @ = "blocked" THEN "ready" ELSE @]

\* update_task, and move_task to another status than review.
Moved(row, status) ==
    [row EXCEPT !.status = status, !.blocked = @ /\ status = "blocked"]

\* Variant of upsert_synced_task: a ready entry clears the invalidation,
\* however old the pull is.
upsert_synced_task_undated(existing, incoming, ready_issue_observed, expected) ==
    LET fresh == ready_issue_observed \/ existing.invalid = 0
        preserve == \/ expected # <<existing.status, existing.blocked>>
                    \/ existing.status \in {"claimed", "in_progress"}
                    \/ existing.lease # NoLease
    IN  [IF preserve THEN existing ELSE incoming
         EXCEPT !.pull = IF fresh THEN incoming.pull ELSE 0,
                !.invalid = IF fresh THEN 0 ELSE existing.invalid,
                !.fence = 0]

\* Variant of upsert_synced_task: a snapshot that follows a claim does not
\* carry the lease fields forward.
upsert_synced_task_unleases(existing, incoming, ready_issue_observed, expected) ==
    IF expected = <<existing.status, existing.blocked>> THEN incoming ELSE existing

\* The row a pull leaves.  "expected" is the (status, blocked_reason) a
\* reconciliation saw, or the row's own when the caller passes none.
upsert_synced_task(existing, incoming, ready_issue_observed, expected) ==
    LET fresh == ready_issue_observed /\ incoming.pull > existing.invalid
        pull1 == IF existing.invalid # 0 /\ ~fresh THEN 0 ELSE incoming.pull
        invalid == IF existing.invalid = 0 THEN incoming.invalid
                   ELSE IF fresh THEN 0 ELSE existing.invalid
        reopen == ready_issue_observed /\ pull1 > existing.fence
        pull2 == IF existing.fence # 0 /\ ~reopen THEN 0 ELSE pull1
        fence == IF existing.fence = 0 THEN incoming.fence
                 ELSE IF reopen THEN 0 ELSE existing.fence
        preserve == \/ expected # <<existing.status, existing.blocked>>
                    \/ existing.fence # 0 /\ ~reopen
                    \/ existing.status \in {"claimed", "in_progress"}
                    \/ existing.lease # NoLease
    IN  [IF preserve THEN existing ELSE incoming
         EXCEPT !.pull = pull2, !.invalid = invalid, !.fence = fence]
=============================================================================
