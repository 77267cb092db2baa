------------------------------ MODULE JobStore ------------------------------
(***************************************************************************)
(* The rows of orchestration_jobs and worker_leases and the statements      *)
(* src/projectos/store.py runs on them.  Every operator takes the row(s) a   *)
(* statement reads and returns the row it leaves behind, so that a           *)
(* transaction is a composition of operators.                                *)
(*                                                                           *)
(* Abstractions.  Times are kept as the answer to the only question asked of *)
(* them: lease.expired is "expires_at <= now", job.backoff is "retry_at is   *)
(* in the future".  An absent lease row and a released one are the same row  *)
(* (acquire_lease deletes released rows before it inserts, and every other   *)
(* statement filters on released_at IS NULL).                                *)
(***************************************************************************)
EXTENDS Integers

CONSTANTS
    Jobs,           \* rows of orchestration_jobs
    MaxAttempts,    \* orchestration_jobs.max_attempts
    DependsOn,      \* job -> the jobs it depends on
    Worktree,       \* job -> the worktree name it claims
    NoWorktree      \* the name of a job that needs no worktree

ASSUME MaxAttemptsAssumption == MaxAttempts \in Nat \ {0}
ASSUME DependsOnAssumption == DependsOn \in [Jobs -> SUBSET Jobs]

Statuses == {"QUEUED", "READY", "LEASED", "RUNNING", "SUCCEEDED",
             "FAILED", "BLOCKED", "RETRY_WAIT", "CANCELLED"}
ActiveStatuses == {"LEASED", "RUNNING"}
TerminalStatuses == {"SUCCEEDED", "FAILED", "BLOCKED", "CANCELLED"}
RecoveryActive == {"QUEUED", "READY", "LEASED", "RUNNING", "RETRY_WAIT"}

\* The outcomes of a delivery job; "none" is NULL.  A disqualifying one keeps a
\* SUCCEEDED job from satisfying its dependents (SUPERSEDED, which only release
\* jobs get, is a third).
Outcomes == {"none", "NO_CHANGE", "INVALIDATED", "SALVAGED"}
Disqualifying == {"NO_CHANGE", "INVALIDATED"}

JobRow == [status: Statuses, attempt: Nat, backoff: BOOLEAN, outcome: Outcomes]
LeaseRow == [id: Nat, released: BOOLEAN, expired: BOOLEAN]
NoLease == [id |-> 0, released |-> TRUE, expired |-> FALSE]

CreateJob(status) ==
    [status |-> status, attempt |-> 0, backoff |-> FALSE, outcome |-> "none"]
-----------------------------------------------------------------------------
(* Leases. *)

\* release_lease: by job, whoever holds it.
ReleaseLease(lease) == [lease EXCEPT !.released = TRUE]

ActiveLease(lease) == ~lease.released

\* The row acquire_lease inserts.  UNIQUE (job_id) makes the insert fail when
\* an unreleased row is left: callers test ActiveLease first.
NewLease(id) == [id |-> id, released |-> FALSE, expired |-> FALSE]

\* One row of the SELECT of recover_expired_leases: the lease, and the job's
\* status and attempt as they were when the SELECT ran.
ScanRow == [hit: BOOLEAN, lease: Nat, status: Statuses, attempt: Nat]
NoRow == [hit |-> FALSE, lease |-> 0, status |-> "RUNNING", attempt |-> 0]

\* Mutant: a scan that overlooks jobs that had already started.
ExpiredLeasedOnly(jobs, leases) ==
    [j \in Jobs |->
        IF ActiveLease(leases[j]) /\ leases[j].expired /\ jobs[j].status = "LEASED"
        THEN [hit |-> TRUE, lease |-> leases[j].id,
              status |-> jobs[j].status, attempt |-> jobs[j].attempt]
        ELSE NoRow]

ExpiredRows(jobs, leases) ==
    [j \in Jobs |->
        IF ActiveLease(leases[j]) /\ leases[j].expired
           /\ jobs[j].status \in ActiveStatuses
        THEN [hit |-> TRUE, lease |-> leases[j].id,
              status |-> jobs[j].status, attempt |-> jobs[j].attempt]
        ELSE NoRow]

NothingFound == [j \in Jobs |-> NoRow]

\* Mutant: a release that is not guarded by the id of the lease the scan saw.
RecoverAnyLease(lease, row) == IF row.hit THEN ReleaseLease(lease) ELSE lease

\* The UPDATE of the lease is guarded by its id and released_at IS NULL ...
RecoverLease(lease, row) ==
    IF row.hit /\ lease.id = row.lease THEN ReleaseLease(lease) ELSE lease

\* Mutant: an interrupted run gives its attempt back.
RefundedAttempt(row) == row.attempt - 1
\* Mutant: a retryable job keeps its status when its lease is released.
UnmovedStatus(row) ==
    IF row.attempt + 1 >= MaxAttempts THEN "FAILED" ELSE row.status

\* A job that never started keeps its attempt; an interrupted run costs one.
RecoveredAttempt(row) ==
    IF row.status = "LEASED" THEN row.attempt ELSE row.attempt + 1
RecoveredStatus(row) ==
    CASE row.status = "LEASED" -> "READY"
      [] row.status # "LEASED" /\ row.attempt + 1 >= MaxAttempts -> "FAILED"
      [] OTHER -> "RETRY_WAIT"

\* ... the UPDATE of the job by its id only: it writes what the SELECT saw.
RecoverJob(job, row) ==
    IF row.hit
    THEN [job EXCEPT !.status = RecoveredStatus(row), !.attempt = RecoveredAttempt(row)]
    ELSE job

RecoverLeases(leases, rows) ==
    [j \in Jobs |-> RecoverLease(leases[j], rows[j])]
RecoverJobs(jobs, rows) ==
    [j \in Jobs |-> RecoverJob(jobs[j], rows[j])]
-----------------------------------------------------------------------------
(* Job status changes.  None of mark_succeeded, mark_failure, mark_blocked   *)
(* and mark_cancelled looks at the status it replaces.                       *)

MarkLeased(job) == [job EXCEPT !.status = "LEASED"]
\* Mutant: the attempt is charged at the start as well as at the failure.
MarkRunningCharged(job) == [job EXCEPT !.status = "RUNNING", !.attempt = @ + 1]
MarkRunning(job) == [job EXCEPT !.status = "RUNNING"]

\* Mutant: a success overwrites the outcome, with NULL when it has none.
MarkSucceededPlain(job, outcome) ==
    [job EXCEPT !.status = "SUCCEEDED", !.outcome = outcome]

\* COALESCE(new outcome, outcome): a success without an outcome keeps the
\* outcome already recorded.
MarkSucceeded(job, outcome) ==
    [job EXCEPT !.status = "SUCCEEDED",
                !.outcome = IF outcome = "none" THEN @ ELSE outcome]

FailureStatus(attempt, blocked) ==
    CASE blocked -> "BLOCKED"
      [] ~blocked /\ attempt >= MaxAttempts -> "FAILED"
      [] OTHER -> "RETRY_WAIT"

MarkFailure(job, blocked) ==
    [job EXCEPT !.status = FailureStatus(job.attempt + 1, blocked),
                !.attempt = job.attempt + 1,
                !.backoff = (FailureStatus(job.attempt + 1, blocked) = "RETRY_WAIT")]

MarkBlocked(job) == [job EXCEPT !.status = "BLOCKED"]
MarkCancelled(job) == [job EXCEPT !.status = "CANCELLED"]
MarkInvalidated(job) == [job EXCEPT !.outcome = "INVALIDATED"]
MarkSalvaged(job) == [job EXCEPT !.status = "SUCCEEDED", !.outcome = "SALVAGED"]

PromoteQueuedToReady(job) == [job EXCEPT !.status = "READY"]
MarkReadyFromBlocked(job) == [job EXCEPT !.status = "READY"]
PromotableRetry(job) == job.status = "RETRY_WAIT" /\ ~job.backoff
PromoteRetryWaitToReady(job) == [job EXCEPT !.status = "READY", !.backoff = FALSE]
-----------------------------------------------------------------------------
(* Eligibility. *)

JobSatisfiesDependency(dep) ==
    dep.status = "SUCCEEDED" /\ dep.outcome \notin Disqualifying

DependenciesSatisfied(jobs, j) ==
    \A d \in DependsOn[j] : JobSatisfiesDependency(jobs[d])

\* select_ready_job, and list_eligible_ready_jobs when paused is the
\* project's pause flag.
EligibleReady(jobs, paused) ==
    {j \in Jobs : /\ jobs[j].status = "READY"
                  /\ DependenciesSatisfied(jobs, j)
                  /\ ~paused}

\* Mutant: a holder that has started running no longer counts.
WorktreeLeased(jobs, j) ==
    /\ Worktree[j] # NoWorktree
    /\ \E k \in Jobs \ {j} : Worktree[k] = Worktree[j] /\ jobs[k].status = "LEASED"

\* find_active_worktree_holder
WorktreeHeld(jobs, j) ==
    /\ Worktree[j] # NoWorktree
    /\ \E k \in Jobs \ {j} : /\ Worktree[k] = Worktree[j]
                             /\ jobs[k].status \in ActiveStatuses
=============================================================================
