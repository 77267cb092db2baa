------------------------------ MODULE JobQueue ------------------------------
(***************************************************************************)
(* Workers, dispatcher, recovery pass and operator commands over the job     *)
(* table of JobStore.                                                        *)
(*                                                                           *)
(* Atomicity.  projectos.db.connection opens SQLite with Python's default    *)
(* isolation: a SELECT before the first INSERT/UPDATE/DELETE runs on its     *)
(* own, the first write takes the single writer lock, and everything from    *)
(* there to the end of the with-block is one transaction.  So every handler  *)
(* is split here at the reads that precede its first write; what it read     *)
(* is kept in local variables and may be stale when the write happens.       *)
(***************************************************************************)
EXTENDS JobStore, FiniteSets

CONSTANTS
    Workers,            \* processes or threads that run worker.run_once
    Dispatcher,         \* dispatch.run_dispatch
    Recovery,           \* recover.run_recovery
    NoJob,
    MaxParallel,        \* run_dispatch's max_parallel
    AssuranceOf,        \* job -> the assurance jobs created for it
    LeaseOutlivesRun,   \* whether lease_seconds exceeds every run's duration
    Commands,           \* the operator commands and outside events in play
    LeaseBound          \* bound on the leases ever granted on one job

ASSUME ProcsAssumption ==
    /\ Dispatcher \notin Workers /\ Recovery \notin Workers
    /\ Dispatcher # Recovery
    /\ NoJob \notin Jobs
ASSUME SettingsAssumption ==
    /\ LeaseOutlivesRun \in BOOLEAN
    /\ AssuranceOf \in [Jobs -> SUBSET Jobs]
    /\ MaxParallel \in Nat \ {0}
    /\ LeaseBound \in Nat

AllCommands == {"worker", "drop", "queued", "cancel", "reclaim", "revalidate",
                "invalidate", "salvage", "pause", "drift"}
ASSUME CommandsAssumption == Commands \subseteq AllCommands

Procs == Workers \cup {Dispatcher, Recovery}

VARIABLES
    jobs,        \* orchestration_jobs
    leases,      \* worker_leases, by job
    granted,     \* job -> number of leases ever granted on it: the next one's id
                 \* (worker_leases.id is AUTOINCREMENT; ids are only compared
                 \* between leases of the same job)
    paused,      \* project_orchestration_control.paused
    identityOk,  \* whether registry and repository identity still agree
    pc,          \* where each process is between two transactions
    rows,        \* what its last recover_expired_leases SELECT returned
    task,        \* the job a worker was given, selected or runs
    held,        \* the id of the lease a running worker acquired
    inflight,    \* workers whose futures run_dispatch still tracks
    listed,      \* jobs run_recovery has listed and is about to write
    command      \* an operator command between its read and its write

db == <<jobs, leases, granted>>
env == <<paused, identityOk>>
local == <<pc, rows, task, held, inflight, listed>>
vars == <<db, env, local, command>>

PCs == {"idle", "begin", "found", "select", "lease", "leasing", "executing",
        "blocking", "promoting"}
Kinds == {"none", "cancel", "reclaim", "invalidate", "salvage"}
NoCommand == [kind |-> "none", job |-> NoJob, targets |-> {}, attempt |-> 0]

TypeOK ==
    /\ jobs \in [Jobs -> JobRow]
    /\ leases \in [Jobs -> LeaseRow]
    /\ granted \in [Jobs -> Nat]
    /\ paused \in BOOLEAN /\ identityOk \in BOOLEAN
    /\ pc \in [Procs -> PCs]
    /\ rows \in [Procs -> [Jobs -> ScanRow]]
    /\ task \in [Workers -> Jobs \cup {NoJob}]
    /\ held \in [Workers -> Nat]
    /\ inflight \subseteq Workers
    /\ listed \subseteq Jobs
    /\ command \in [kind: Kinds, job: Jobs \cup {NoJob}, targets: SUBSET Jobs, attempt: Nat]

Init ==
    /\ jobs \in [Jobs -> {CreateJob("READY"), CreateJob("QUEUED")}]
    /\ leases = [j \in Jobs |-> NoLease]
    /\ granted = [j \in Jobs |-> 0]
    /\ paused = FALSE /\ identityOk = TRUE
    /\ pc = [p \in Procs |-> "idle"]
    /\ rows = [p \in Procs |-> NothingFound]
    /\ task = [w \in Workers |-> NoJob]
    /\ held = [w \in Workers |-> 0]
    /\ inflight = {} /\ listed = {}
    /\ command = NoCommand
-----------------------------------------------------------------------------
(* recover_expired_leases, shared by worker, dispatcher and recovery pass.   *)

\* The SELECT.  A scan that found something goes on to write at once; one
\* that found nothing leaves the process outside any transaction.
Scan(p, from, found, nothing) ==
    /\ pc[p] = from
    /\ rows' = [rows EXCEPT ![p] = ExpiredRows(jobs, leases)]
    /\ pc' = [pc EXCEPT ![p] = IF ExpiredRows(jobs, leases) = NothingFound
                               THEN nothing ELSE found]

\* The rows of the writes that follow it in the same transaction.
RecoveredJobs(p) == RecoverJobs(jobs, rows[p])
RecoveredLeases(p) == RecoverLeases(leases, rows[p])
-----------------------------------------------------------------------------
(* worker.run_once *)

WorkerEnds(w) ==
    /\ pc' = [pc EXCEPT ![w] = "idle"]
    /\ rows' = [rows EXCEPT ![w] = NothingFound]
    /\ task' = [task EXCEPT ![w] = NoJob]
    /\ held' = [held EXCEPT ![w] = 0]
    /\ inflight' = inflight \ {w}

\* projectos worker without --job
StartWorker(w) ==
    /\ "worker" \in Commands
    /\ pc[w] = "idle"
    /\ pc' = [pc EXCEPT ![w] = "begin"]
    /\ UNCHANGED <<db, env, rows, task, held, inflight, listed, command>>

WorkerScan(w) ==
    /\ Scan(w, "begin", "found", "select")
    /\ UNCHANGED <<db, env, task, held, inflight, listed, command>>

\* What run_once may go on with, given the job table js it reads: the job it
\* was given if it is still READY (dependencies and pause are not looked at
\* again), otherwise a job select_ready_job returns.
Choice(w, js) ==
    IF task[w] # NoJob
    THEN {j \in {task[w]} : js[j].status = "READY"}
    ELSE EligibleReady(js, FALSE)

WorkerSelect(w) ==
    /\ pc[w] = "select"
    /\ \/ \E j \in Choice(w, jobs) :
             /\ task' = [task EXCEPT ![w] = j]
             /\ pc' = [pc EXCEPT ![w] = "lease"]
             /\ UNCHANGED <<rows, held, inflight>>
       \/ /\ Choice(w, jobs) = {}
          /\ WorkerEnds(w)
    /\ UNCHANGED <<db, env, listed, command>>

\* acquire_lease begins with a recovery scan of its own.
WorkerLeaseScan(w) ==
    /\ Scan(w, "lease", "leasing", "leasing")
    /\ UNCHANGED <<db, env, task, held, inflight, listed, command>>

\* The rest of phase 1 is one transaction, from acquire_lease to the commit
\* that leaves the job RUNNING, run on the job and lease tables js and ls.
LeaseConflict(w, j, js, ls) ==
    /\ js[j].status # "READY" \/ ActiveLease(ls[j])
    /\ jobs' = js /\ leases' = ls
    /\ WorkerEnds(w)
    /\ UNCHANGED granted

\* Mutant: the lease row is replaced instead of inserted.
CanLeaseByStatus(j, js, ls) == js[j].status = "READY" /\ granted[j] < LeaseBound

CanLease(j, js, ls) ==
    /\ js[j].status = "READY" /\ ~ActiveLease(ls[j])
    /\ granted[j] < LeaseBound

\* Identity, release provenance, worktree or assignment fails after the lease.
StartBlocked(w, j, js, ls) ==
    /\ CanLease(j, js, ls)
    /\ jobs' = [js EXCEPT ![j] = MarkFailure(MarkLeased(js[j]), TRUE)]
    /\ leases' = [ls EXCEPT ![j] = ReleaseLease(NewLease(granted[j] + 1))]
    /\ granted' = [granted EXCEPT ![j] = granted[j] + 1]
    /\ WorkerEnds(w)

StartRunning(w, j, js, ls) ==
    /\ CanLease(j, js, ls)
    /\ identityOk
    /\ ~WorktreeHeld(js, j)
    /\ jobs' = [js EXCEPT ![j] = MarkRunning(MarkLeased(js[j]))]
    /\ leases' = [ls EXCEPT ![j] = NewLease(granted[j] + 1)]
    /\ granted' = [granted EXCEPT ![j] = granted[j] + 1]
    /\ pc' = [pc EXCEPT ![w] = "executing"]
    /\ task' = [task EXCEPT ![w] = j]
    /\ held' = [held EXCEPT ![w] = granted[j] + 1]
    /\ rows' = [rows EXCEPT ![w] = NothingFound]
    /\ UNCHANGED inflight

Phase1(w, j, js, ls) ==
    \/ LeaseConflict(w, j, js, ls)
    \/ StartBlocked(w, j, js, ls)
    \/ StartRunning(w, j, js, ls)

WorkerLease(w) ==
    /\ pc[w] = "leasing"
    /\ Phase1(w, task[w], RecoveredJobs(w), RecoveredLeases(w))
    /\ UNCHANGED <<env, listed, command>>

\* The first scan found expired leases: recovery, selection and lease are one
\* transaction, and acquire_lease's own scan runs inside it.
WorkerRecover(w) ==
    LET js == RecoveredJobs(w)
        ls == RecoveredLeases(w)
        again == ExpiredRows(js, ls)
    IN  /\ pc[w] = "found"
        /\ \/ \E j \in Choice(w, js) :
                 Phase1(w, j, RecoverJobs(js, again), RecoverLeases(ls, again))
           \/ /\ Choice(w, js) = {}
              /\ jobs' = js /\ leases' = ls
              /\ WorkerEnds(w)
              /\ UNCHANGED granted
        /\ UNCHANGED <<env, listed, command>>

\* Phase 3.  The transaction starts with the insert of agent_runs and never
\* looks at the lease: the worker writes whatever the row has become.
Finish(w, row) ==
    /\ pc[w] = "executing"
    /\ jobs' = [jobs EXCEPT ![task[w]] = row]
    /\ leases' = [leases EXCEPT ![task[w]] = ReleaseLease(leases[task[w]])]
    /\ WorkerEnds(w)
    /\ UNCHANGED <<granted, env, listed, command>>

WorkerSucceeds(w) ==
    \E outcome \in {"none", "NO_CHANGE"} :
        Finish(w, MarkSucceeded(jobs[task[w]], outcome))
WorkerFails(w) == Finish(w, MarkFailure(jobs[task[w]], FALSE))
WorkerRefuses(w) == Finish(w, MarkFailure(jobs[task[w]], TRUE))

\* The process dies, or a phase raises: SQLite rolls the open transaction back.
WorkerCrash(w) ==
    /\ pc[w] # "idle"
    /\ WorkerEnds(w)
    /\ UNCHANGED <<db, env, listed, command>>
-----------------------------------------------------------------------------
(* dispatch.run_dispatch *)

DispatchScan ==
    /\ Scan(Dispatcher, "idle", "found", "select")
    /\ UNCHANGED <<db, env, task, held, inflight, listed, command>>

IdleWorkers == {w \in Workers : pc[w] = "idle"}
Busy == {task[w] : w \in inflight}

\* list_eligible_ready_jobs, in the transaction of the recovery writes when
\* there were any, then one pool.submit.
DispatchSubmit ==
    LET js == RecoveredJobs(Dispatcher)
        open == EligibleReady(js, paused) \ Busy
        free == IF Cardinality(inflight) < MaxParallel THEN IdleWorkers ELSE {}
    IN  /\ pc[Dispatcher] \in {"found", "select"}
        /\ jobs' = js /\ leases' = RecoveredLeases(Dispatcher)
        /\ rows' = [rows EXCEPT ![Dispatcher] = NothingFound]
        /\ \/ \E j \in open, w \in free :
                 /\ pc' = [pc EXCEPT ![Dispatcher] = "idle", ![w] = "begin"]
                 /\ task' = [task EXCEPT ![w] = j]
                 /\ inflight' = inflight \cup {w}
           \/ /\ open = {} \/ free = {}
              /\ pc' = [pc EXCEPT ![Dispatcher] = "idle"]
              /\ UNCHANGED <<task, inflight>>
        /\ UNCHANGED <<granted, env, held, listed, command>>

\* End of a wave: _drain_in_flight gives up after shutdown_grace_seconds and
\* forgets the futures that still run; the next call has a new pool.
DropFutures ==
    /\ "drop" \in Commands
    /\ pc[Dispatcher] = "idle" /\ inflight # {}
    /\ inflight' = {}
    /\ UNCHANGED <<db, env, pc, rows, task, held, listed, command>>
-----------------------------------------------------------------------------
(* recover.run_recovery *)

RecoveryScan ==
    /\ Scan(Recovery, "idle", "found", "select")
    /\ UNCHANGED <<db, env, task, held, inflight, listed, command>>

BlockAll(js, S) == [j \in Jobs |-> IF j \in S THEN MarkBlocked(js[j]) ELSE js[j]]
ReleaseAll(ls, S) == [j \in Jobs |-> IF j \in S THEN ReleaseLease(ls[j]) ELSE ls[j]]
PromoteAll(js, S) ==
    [j \in Jobs |-> IF j \in S THEN PromoteRetryWaitToReady(js[j]) ELSE js[j]]

Listing(js) ==
    IF identityOk THEN {j \in Jobs : PromotableRetry(js[j])}
                  ELSE {j \in Jobs : js[j].status \in RecoveryActive}

\* With expired leases the whole pass is one transaction.
RecoveryPass ==
    LET js == RecoveredJobs(Recovery)
        ls == RecoveredLeases(Recovery)
    IN  /\ pc[Recovery] = "found"
        /\ jobs' = IF identityOk THEN PromoteAll(js, Listing(js))
                                 ELSE BlockAll(js, Listing(js))
        /\ leases' = IF identityOk THEN ls ELSE ReleaseAll(ls, Listing(js))
        /\ rows' = [rows EXCEPT ![Recovery] = NothingFound]
        /\ pc' = [pc EXCEPT ![Recovery] = "idle"]
        /\ UNCHANGED <<granted, env, task, held, inflight, listed, command>>

\* Without, it first reads identity and the jobs it will block or promote ...
RecoveryList ==
    /\ pc[Recovery] = "select"
    /\ listed' = Listing(jobs)
    /\ pc' = [pc EXCEPT ![Recovery] =
                IF identityOk THEN "promoting" ELSE "blocking"]
    /\ UNCHANGED <<db, env, rows, task, held, inflight, command>>

RecoveryEnds ==
    /\ listed' = {}
    /\ pc' = [pc EXCEPT ![Recovery] = "idle"]
    /\ UNCHANGED <<granted, env, rows, task, held, inflight, command>>

\* ... then mark_blocked writes every listed job, whatever it is by now,
RecoveryBlock ==
    /\ pc[Recovery] = "blocking"
    /\ jobs' = BlockAll(jobs, listed)
    /\ leases' = ReleaseAll(leases, listed)
    /\ RecoveryEnds

\* while promote_retry_wait_to_ready raises, and rolls the pass back, when one
\* of them is no longer RETRY_WAIT.
RecoveryPromote ==
    /\ pc[Recovery] = "promoting"
    /\ jobs' = IF \A j \in listed : PromotableRetry(jobs[j])
               THEN PromoteAll(jobs, listed) ELSE jobs
    /\ UNCHANGED leases
    /\ RecoveryEnds
-----------------------------------------------------------------------------
(* Operator commands.  cancel, reclaim, invalidate and salvage read before    *)
(* they write.                                                                *)

Ask(kind, j, targets) ==
    /\ kind \in Commands
    /\ command.kind = "none"
    /\ command' = [kind |-> kind, job |-> j, targets |-> targets,
                   attempt |-> IF kind = "salvage" THEN jobs[j].attempt ELSE 0]
    /\ UNCHANGED <<db, env, local>>

Answer(js, ls) ==
    /\ jobs' = js /\ leases' = ls
    /\ command' = NoCommand
    /\ UNCHANGED <<granted, env, local>>

CancelAll(js, S) ==
    [j \in Jobs |-> IF j \in S THEN MarkCancelled(js[j]) ELSE js[j]]

\* decisions._apply_approved_action, action cancel_job
CancelAsk(j) ==
    /\ jobs[j].status \notin TerminalStatuses
    /\ Ask("cancel", j, {j})
CancelApply ==
    /\ command.kind = "cancel"
    /\ Answer(CancelAll(jobs, command.targets), ReleaseAll(leases, command.targets))

\* invalidate_delivery_candidate: cancels the assurance jobs it found not
\* finished, then sets the outcome, whatever the delivery's status.  When the
\* rework job exists already no assurance job is cancelled, and a delivery seen
\* invalidated is left alone.
InvalidateAsk(j) ==
    \/ Ask("invalidate", j,
           {k \in AssuranceOf[j] : jobs[k].status \notin TerminalStatuses})
    \/ /\ jobs[j].outcome # "INVALIDATED"
       /\ Ask("invalidate", j, {})
InvalidateApply ==
    /\ command.kind = "invalidate"
    /\ LET js == CancelAll(jobs, command.targets)
       IN  Answer([js EXCEPT ![command.job] = MarkInvalidated(js[command.job])],
                  ReleaseAll(leases, command.targets))

\* salvage_delivery_candidate: a failed delivery whose worktree nobody uses is
\* declared SUCCEEDED.  Neither the outcome it replaces nor the status at the
\* time of the UPDATE is looked at; an attempt counted since the read makes it
\* raise, which rolls the UPDATE back.
SalvageAsk(j) ==
    /\ jobs[j].status = "FAILED" /\ ~ActiveLease(leases[j])
    /\ identityOk /\ ~WorktreeHeld(jobs, j)
    /\ Ask("salvage", j, {j})
SalvageApply ==
    /\ command.kind = "salvage"
    /\ \/ /\ jobs[command.job].attempt = command.attempt
          /\ Answer([jobs EXCEPT ![command.job] = MarkSalvaged(jobs[command.job])], leases)
       \/ /\ jobs[command.job].attempt # command.attempt
          /\ Answer(jobs, leases)

\* RecoverService.reclaim_running: expire the lease, recover, and promote
\* unless --no-promote; a retry_at in the future makes the promotion raise,
\* which rolls everything back.
ReclaimAsk(j) ==
    /\ jobs[j].status \in ActiveStatuses
    /\ Ask("reclaim", j, {j})
ReclaimApply(promote) ==
    LET j == command.job
        expired == [leases EXCEPT ![j].expired = @ \/ ActiveLease(leases[j])]
        hit == ExpiredRows(jobs, expired)
        recovered == RecoverJobs(jobs, hit)
        js == IF hit[j].hit THEN recovered
              ELSE [recovered EXCEPT ![j] = MarkFailure(recovered[j], FALSE)]
        ls == IF hit[j].hit THEN RecoverLeases(expired, hit)
              ELSE [RecoverLeases(expired, hit) EXCEPT ![j] = ReleaseLease(expired[j])]
        again == promote /\ js[j].status = "RETRY_WAIT"
    IN  /\ command.kind = "reclaim"
        /\ \/ /\ ~again
              /\ Answer(js, ls)
           \/ /\ again /\ ~js[j].backoff
              /\ Answer([js EXCEPT ![j] = PromoteRetryWaitToReady(js[j])], ls)
           \/ /\ again /\ js[j].backoff
              /\ Answer(jobs, leases)

\* revalidate_blocked_job: mark_ready_from_blocked reads the status again
\* inside the transaction that set_job_assignment opened.
Revalidate(j) ==
    /\ "revalidate" \in Commands
    /\ jobs[j].status = "BLOCKED" /\ identityOk
    /\ jobs' = [jobs EXCEPT ![j] = MarkReadyFromBlocked(jobs[j])]
    /\ UNCHANGED <<leases, granted, env, local, command>>

\* promote_queued_to_ready, when the release prerequisites are met.
PromoteQueued(j) ==
    /\ "queued" \in Commands
    /\ jobs[j].status = "QUEUED"
    /\ jobs' = [jobs EXCEPT ![j] = PromoteQueuedToReady(jobs[j])]
    /\ UNCHANGED <<leases, granted, env, local, command>>

SetPaused ==
    /\ "pause" \in Commands
    /\ paused' = ~paused
    /\ UNCHANGED <<db, identityOk, local, command>>

\* The registry or the repository changes under the jobs, or is repaired.
IdentityChanges ==
    /\ "drift" \in Commands
    /\ identityOk' = ~identityOk
    /\ UNCHANGED <<db, paused, local, command>>
-----------------------------------------------------------------------------
(* Time. *)

Executing(w, j) == pc[w] = "executing" /\ task[w] = j

\* lease_seconds (900 by default) go by.  A run may last timeout_seconds (1800
\* by default) and nothing renews its lease.
LeaseExpires(j) ==
    /\ ActiveLease(leases[j]) /\ ~leases[j].expired
    /\ LeaseOutlivesRun =>
          \A w \in Workers : Executing(w, j) => held[w] # leases[j].id
    /\ leases' = [leases EXCEPT ![j].expired = TRUE]
    /\ UNCHANGED <<jobs, granted, env, local, command>>

BackoffElapses(j) ==
    /\ jobs[j].backoff
    /\ jobs' = [jobs EXCEPT ![j].backoff = FALSE]
    /\ UNCHANGED <<leases, granted, env, local, command>>
-----------------------------------------------------------------------------
WorkerStep(w) ==
    \/ WorkerScan(w) \/ WorkerSelect(w) \/ WorkerLeaseScan(w) \/ WorkerLease(w)
    \/ WorkerRecover(w) \/ WorkerSucceeds(w) \/ WorkerFails(w) \/ WorkerRefuses(w)
DispatchStep == DispatchScan \/ DispatchSubmit
RecoveryStep ==
    RecoveryScan \/ RecoveryPass \/ RecoveryList \/ RecoveryBlock \/ RecoveryPromote
CommandStep ==
    \/ \E j \in Jobs : \/ CancelAsk(j) \/ InvalidateAsk(j) \/ ReclaimAsk(j) \/ SalvageAsk(j)
                       \/ Revalidate(j) \/ PromoteQueued(j)
    \/ CancelApply \/ InvalidateApply \/ SalvageApply
    \/ \E promote \in BOOLEAN : ReclaimApply(promote)
    \/ SetPaused \/ IdentityChanges
TimeStep == \E j \in Jobs : LeaseExpires(j) \/ BackoffElapses(j)

Next ==
    \/ \E w \in Workers : StartWorker(w) \/ WorkerStep(w) \/ WorkerCrash(w)
    \/ DispatchStep \/ DropFutures
    \/ RecoveryStep
    \/ CommandStep
    \/ TimeStep

Spec == Init /\ [][Next]_vars

\* The daemon loop calls run_recovery and run_dispatch over and over; threads
\* it starts run, time passes.  Crashes and operator commands are never owed.
Fairness ==
    /\ WF_vars(RecoveryStep) /\ WF_vars(DispatchStep)
    /\ \A w \in Workers : WF_vars(WorkerStep(w))
    /\ \A j \in Jobs : WF_vars(LeaseExpires(j)) /\ WF_vars(BackoffElapses(j))

FairSpec == Spec /\ Fairness
-----------------------------------------------------------------------------
(* Properties. *)

\* A job that is LEASED or RUNNING has an unreleased lease row: if its worker
\* is gone, recover_expired_leases, which looks for such rows, will find it.
ActiveJobHasLease ==
    \A j \in Jobs : jobs[j].status \in ActiveStatuses => ActiveLease(leases[j])

\* Two jobs that name the same worktree are never both LEASED or RUNNING, the
\* claim find_active_worktree_holder checks in the leasing transaction.
WorktreeExclusive ==
    \A j \in Jobs : \A k \in Jobs \ {j} :
        (Worktree[j] = Worktree[k] /\ Worktree[j] # NoWorktree)
            => ~( /\ jobs[j].status \in ActiveStatuses
                  /\ jobs[k].status \in ActiveStatuses)

\* Settings under which only a worker itself gives up its lease: leases longer
\* than any run, and no command that takes a running job from its worker.
SafeSettings ==
    LeaseOutlivesRun /\ Commands \cap {"cancel", "reclaim", "invalidate", "drift"} = {}

\* No job is executed by two workers at once.
OneExecutor ==
    \A v, w \in Workers : \A j \in Jobs :
        Executing(v, j) /\ Executing(w, j) => v = w

\* With safe settings no job is executed twice at once, although recovery
\* writes may be stale: the UNIQUE lease row stands when the status is wrong.
SafeOneExecutor == SafeSettings => OneExecutor

\* With safe settings a worker that finishes still owns the job's lease, so
\* mark_succeeded and mark_failure release no other worker's lease.
ExecutorHoldsLease ==
    SafeSettings =>
        \A w \in Workers : \A j \in Jobs :
            Executing(w, j) => ActiveLease(leases[j]) /\ leases[j].id = held[w]

\* With safe settings every attempt charged against max_attempts was paid for
\* by a lease of its own: recovery and worker never both charge one run.
AttemptsPaidFor ==
    SafeSettings => \A j \in Jobs : jobs[j].attempt <= granted[j]

\* A delivery once declared NO_CHANGE or INVALIDATED never counts as a satisfied
\* dependency again, whatever a late worker writes (mark_succeeded COALESCEs):
\* only a salvage, which overwrites the outcome, makes it count.
OutcomeSticks ==
    [][\A j \in Jobs : jobs[j].outcome \in Disqualifying
                            => \/ ~JobSatisfiesDependency(jobs'[j])
                               \/ jobs'[j].outcome = "SALVAGED"]_vars

\* A RUNNING job does not stay RUNNING for ever, crash or no crash.
RunningIsResolved ==
    \A j \in Jobs : jobs[j].status = "RUNNING" ~> jobs[j].status # "RUNNING"
=============================================================================
