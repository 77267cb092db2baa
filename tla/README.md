# ProjectOS in TLA+

ProjectOS (`src/src/projectos`) is a Python control plane that plans software
work as a durable graph of jobs in SQLite, lets Cursor agents execute the jobs in
git worktrees, and gates what they deliver through assurance, integration and
release.  This directory holds TLA+ specifications of its stateful core, TLC
configurations that check them on small instances, and TLAPS proofs of the
properties that matter most for instances of any size.

Paths below are relative to the repository (`src/`); `store.py` and the like are
files of `src/projectos`.

Contents: 1 the system, 2 what is hard about it, 3 modules and how they
correspond to the code, 4 what the runs check, 5 what is proved, 6 disagreements
found, 7 limits of the models, 8 what is not modelled, 9 plan, 10 running it.

## 1. The system

ProjectOS is a set of processes around one SQLite file: a daemon that loops over
recovery, scheduling, dispatch and event delivery (`daemon.py`), worker threads
of the dispatcher and `projectos worker` processes, an HTTP API, a Slack adapter
and CLI commands.  They share nothing but the database, the project registry
(YAML), the git repositories and GitHub/Slack.

| Component | State it keeps | Operations | Talks to |
|---|---|---|---|
| Job store (`store.py`, `db.py`) | `orchestration_jobs` (status, attempt, retry_at, outcome), `worker_leases` (one row per job), `orchestration_job_dependencies`, pause flag | acquire/release/recover lease, mark running/succeeded/failed/blocked/cancelled, promote | everybody |
| Worker (`worker.py`) | locals of `run_once` between three transactions | select, lease and start, execute, record result | store, Cursor agent, QA handoff, release gate |
| Dispatcher (`dispatch.py`) | futures in flight | recover, list eligible jobs, submit, drain | workers |
| Recovery (`recover.py`) | none | expired leases, identity drift, RETRY_WAIT, revalidation of BLOCKED jobs | store, registry |
| Operator commands (`invalidate.py`, `salvage.py`, `decisions.py`) | none | cancel, reclaim, invalidate with rework, salvage, pause | store |
| Daemon (`daemon.py`) | lock file with a pid, `daemon_state` | acquire, loop, stop | all of the above |
| Iteration, schedule, plan (`iteration.py`, `schedule.py`, `plan.py`) | iteration runs and checkpoints | stages with resume, due schedules, creation of the job graph | store |
| QA (`qa_handoff.py`, `qa_evidence_policy.py`, `qa_gate.py`, `qa_manager.py`, `qa_inconclusive.py`, `qa_retest.py`) | `qa_evidence` per assurance job | hand a candidate to the assessors, record a verdict, aggregate, retry | worker, release gate |
| Integration and release gate (`integration.py`, `release_provenance.py`, `release_readiness.py`, `release_*.py`) | INTEGRATION and RELEASE jobs, commit they are bound to | promote, evaluate, release | QA, delivery |
| Delivery pipeline (`delivery/`, `packaging/`, `github/`) | `delivery_releases`, gates, artifacts, build directory, GitHub release | prepare, package, verify, publish | QA gate, GitHub |
| Domain events (`domain_events.py`, `event_dispatcher.py`) | `event_outbox` | emit, claim, post, mark, hold, release | every component, Slack |
| Execution runs, PM agent, remediation (`execution_run.py`, `run_*.py`, `pm_*.py`, `remediation_*.py`) | run status and phase, outcomes, remediation cases and attempts | apply events, decide next action, remediate, detect stalls | events, store |
| Slack and ChatGPT (`slack_*.py`, `chatgpt_*.py`, `sponsor_*.py`) | inbox with dedup keys, thread bindings, proposals, handoffs | ingest, answer, confirm | PM agent, project creation |
| Project creation (`project_creation.py`, `registry.py`, `onboarding.py`) | id reservations, repository, registry entry, creation record | create, roll back | Slack, PM agent |
| Control service, decisions (`services/control.py`, `decisions.py`) | operation locks, idempotency keys, decisions | run once under a lock, approve, reject | HTTP, Slack |
| projectctl (`templates/delivery-project`) | stories and releases of a delivery repository | release lifecycle | projectctl bridge |

`PROJECT.json` lists all components with the reason why one is left out.

What makes each core component correct:

* job store and workers: a job that somebody works on can be found again if that
  somebody dies; it is executed by one worker at a time; attempts are charged
  once; jobs that share a worktree are not active together; a rejected delivery
  does not come back as a satisfied dependency;
* outbox: a row is given to one dispatcher, nothing is marked delivered that was
  not shown, duplicates come only from crashes and lost answers, everything is
  settled in the end;
* QA and release gate: verdicts are never rewritten, each delivery is assessed
  once per role, and nothing is prepared or released that was not passed;
* delivery: what the database calls published is complete on GitHub, of one
  build of the approved commit, under a tag of its own;
* runs: a run is closed once and announced once, completed only when the sponsor
  has what was asked for, escalated only when the policy says so, and never left
  without a next action after a failure;
* intake: a Slack message has at most one effect and is answered unless a fault
  swallowed it, project ids are used once, a proposal is executed only after the sponsor saw it;
* control plane: one daemon, one operation at a time, one execution per
  idempotency key, decision, plan and window, unless two callers overlap.

## 2. What is hard about it

**Transactions start late.**  `db.connection` (db.py:24-36) commits when the
block ends and rolls back on an exception.  Python's sqlite3 opens a transaction
at the first INSERT, UPDATE or DELETE.  Every SELECT before it runs on its own,
so a handler that reads, decides and writes may write on stale facts.  All
modules split a handler at exactly this point.

**Leases are shorter than runs.**  `run_once` leases for 900 s and lets the agent
run for 1800 s (worker.py:131); nothing renews a lease.

**Outside effects cannot be rolled back.**  Posts to Slack, files of a build and
GitHub releases stay when the transaction around them is rolled back.

**Late executions.**  Because of the two points above a job may be executed
twice at once, so all that follows a result (handoff, verdicts, promotion) must
survive a second result.

**Check, then act, in two transactions.**  Idempotency keys, decisions, plans,
creation records and operation locks are looked up in one step and written in
another; the protection against doing things twice is what lies in between.

**A message is acknowledged before it is handled.**  Slack envelopes are stored,
acknowledged and executed later; dedup keys are claimed before the first effect,
so that a crash loses an answer and never repeats an effect.

The list of hazards in `PROJECT.json` gives each at its line, with the properties
that cover it, or a note where none does.

## 3. Modules

### JobStore and JobQueue

`JobStore` holds the writes of `store.py` on one job or lease as operators on
records (`MarkSucceeded`, `MarkFailure`, `RecoverJob`, `PromoteRetryWaitToReady`)
and its reads (`ExpiredRows`, `EligibleReady`, `WorktreeHeld`).  `JobQueue` has the
processes:

| Code | Actions |
|---|---|
| `worker.run_once` | `WorkerScan`, `WorkerSelect`, `WorkerLeaseScan`, `WorkerLease` / `WorkerRecover` (transaction 1), `WorkerSucceeds`, `WorkerFails`, `WorkerRefuses` (transaction 3), `WorkerCrash` at any point |
| `dispatch.run_dispatch` | `DispatchScan`, `DispatchSubmit`, `DropFutures` (the drain gives up on futures that go on running) |
| `recover.run_recovery` | `RecoveryScan`, `RecoveryPass` (with expired leases, one transaction), `RecoveryList`, `RecoveryBlock`, `RecoveryPromote` (without, reads first) |
| operator commands | `CancelAsk/Apply`, `ReclaimAsk/Apply`, `InvalidateAsk/Apply`, `SalvageAsk/Apply`, `Revalidate`, `PromoteQueued`, `SetPaused` |
| environment | `LeaseExpires`, `BackoffElapses`, `IdentityChanges` |

`rows[p]` is what a process's last `recover_expired_leases` SELECT returned; it is
written back later, stale or not.  Time is one bit per lease (expired) and one
per job (backoff).  `LeaseOutlivesRun` says whether a lease can expire while its
worker executes.  `Commands` names the operator commands in play.

### EventOutbox

`Emit`, `Claim` (the conditional UPDATE of `claim_pending_outbox`), per row of a
batch `Hold`, `Drop`, `MarkUnroutable`, `Post` followed by `MarkDelivered` or
`MarkFailed`, and `Crash`, `ClaimLapses`, `SetLevel`.  A behaviour picks one of
`FaultSets` at the start: lost answers, posts that Slack refuses with
`"ok": false`, batches that outlive their claims, changes of the sponsor's level,
a second dispatcher.  Slack is external.

### ReleaseGate

One story: its DELIVERY job and a rework, the assurance rows of each (a job and
its `qa_evidence` row are made in one transaction, and are one row here), the
INTEGRATION and the RELEASE job.

| Code | Actions |
|---|---|
| result of a DELIVERY (`worker.py`, `qa_handoff.py`) | `DeliverySucceeds` with `Handoff`, `DeliveryUnchanged`, `DeliveryFails` |
| verdict (`assurance_verdict.py`, `qa_evidence_policy.py`) | `JudgeOutput` with `EvidenceResult` and `JudgeInvalid`; `Judge`, with the stale-candidate rejection and `Recordable` |
| `qa_manager.py` | `Aggregate` |
| `qa_inconclusive.py` | `RetryInconclusive` |
| `release_provenance.promote_eligible_release_jobs` | `Promoted`, inside `Judge` and `IntegrationSucceeds` |
| `release_readiness.py` and phase three of RELEASE | `EvaluateRelease` (`StoryDelivery`, `QaPackageComplete`, `ReleaseRecord`), `ReleaseSucceeds`, `ReleaseFails` |
| `release_retry.py` | `ReconcileRelease` with `Reconcilable` and `Successor` |
| `delivery` gate on QA (`qa_gate.py`) | `PrepareRelease` |
| `invalidate.py` | `OrderRework` |
| what JobQueue leaves open | `StartX`, `RetryX`, `RecoverX`; `execs` counts executions in flight |

### DeliveryRelease

`Prepare`; `PackageStart`, `PackageBuild`, a `PackageWrite` per file,
`PackageVerify`, `PackageCommit`; `VerifyRead`, `VerifyCommit`; `PublishRead`,
`PublishCheck`, a `PublishFiles` per file that is read, then `PublishLocal` or
`CreateRelease`, an `UploadAsset` per asset and `PublishCommit`; `MarkAnnounced`; `Abort` at every
step (exception or death: the database part is rolled back, files and GitHub
stay).  `lock` is SQLite's write lock.  With an active run the opening event is
the first write and takes it at once; without one the reads come first, and a
publisher may read the files of a directory that somebody is packaging.  A build
is a number that stands for its bytes; `source` remembers the commit it was made
from (`CandidateWorkspace`), `contract` the delivery contract that was loaded.

### ExecutionRun and RunContract

A handler is the thread that works on one sponsor message.  `RunContract` is what a
run promises, in four actions (open, ask, go on, close once with one
announcement); `ExecutionRun!KeepsContract` instantiates it and is checked as a
refinement.

| Code | Actions |
|---|---|
| `pm_agent.accept_sponsor_handoff`, `sponsor_execution_authority.py` | `AcceptHandoff` (`AcceptRelease`, `AcceptAuthorizedWork`, `AcceptWork`) with `Authority` and `Authorized`, `Directive`, `ApproveProposal` |
| `pm_work_execution.py`, `intake.py` | `Submit`, `SubmitRefused`, `PlanAsks`, `Tag`, `Preview` |
| `pm_remediation.py` | `QaGate`, `QaExhausted`, `RemediationCycle`, `Escalate`: one transaction whose handler is `writer` |
| release orchestration and its failures (`pm_agent.py`, `release_*_actions.py`, `pm_delivery_remediation.py`) | `Plan`, `Prepare`, `PreparationBlocked` (`ContractGap`, `PreparationFailed`), `Package`, `PackageFailed`, `CapabilityGap`, `Publish`, `PublishFailed`, `AssertNextAction`, `Raise`, `CloseRead`, `CloseWrite` |
| `run_state.py`, `run_outcomes.py`, `acceptance_contract.py`, `event_truthfulness.py` | `Close`, `Pause`, `EffectiveRequirements`, `MissingOutputs`, `Satisfied`, `Truthful` |
| `run_next_actions.py` | `Live`, `Durable`, `Inert`, `Reconciled` |
| daemon and recovery | `StartJob`, `EndJob`, `Requeue`, `ReadinessRetry`, `RecoverList`, `Recover` |
| environment | `Die`: a crash, a lock not obtained, a UNIQUE constraint |

### SponsorIntake

The socket process (`Receive`), the daemon that executes the stored items one after
the other, and an operator who registers a project meanwhile (`OperatorLoad`,
`OperatorPersist`).

| Code | Actions |
|---|---|
| `slack_ingress.py` | `ClaimBatch`, `Pick`, `EndBatch`, `Reply`, `Mark`, `Lapse`, `Raise`, `Crash` |
| `slack_socket.py`, `slack_event_idempotency.py` | `ClaimKeys`, `Route` (a mention comes as two envelopes, one of which is only overheard), `Release`, `Request` (`Command`, `SubmitItem`, `RequestProject`) |
| `slack_chatgpt.py`, `chatgpt_store.py` | `ChatAnswer`, `ChatUnresolved`, `ChatError`, `ChatHandoff`, `ChatDone` |
| `chatgpt_proposals.py` | `ChatPropose`, `ChatPreview`, `PreviewFails`, `PreviewLost` (the preview is saved and the reply that shows it is not), `ChatApprove`, `Expire` |
| `project_creation.py`, `onboarding.py`, `registry.py` | `Replayed`, `Allocate`, `Bootstrap`, `BootstrapFails`, `RegisterLoad`, `RegisterPersist`, `RegisterReadBack`, `CreationFails`, `HandoffAccepted`, `HandoffFails`, `RecordCreation` |

`shown` are the messages whose proposal the sponsor was shown, `blind` the ones whose
proposal was executed all the same without.  What a handoff or a command sets going afterwards is ExecutionRun's and JobQueue's
subject; here it is one effect.

### ControlPlane

Processes that nobody serialises, as slots that are used again: daemons, stops,
schedule evaluations, control requests, approvals and rejections, plans and
iterations.

| Code | Actions |
|---|---|
| `daemon.DaemonLock` | `Inspect`, `Unlink`, `Create`, `WritePid`, `Close`, `Remove` |
| `daemon.run_daemon` | `Announce`, `Loop`, `Beat`, `PassFails`, `Finally` |
| `operator.py`, `daemon.stop_daemon` | `Start`, `Kill`, `Clean`, `Note` |
| `schedule.evaluate_due` | `Evaluate`, `Trigger` |
| `services/control.py`, operation locks of `store.py` | `Lookup`, `ReadLock`, `TakeLock`, `Run`, `ReleaseLock`, `Remember`, `GrowOld` |
| `decisions.py` | `ReadDecision`, `Approve`, `Reject`, `ApplyFails` |
| `iteration.py`, `doctor.py` | `Begin`, `HealthStage`, `StageDone`, `StageFails`, `DryPlan`, `DryRun`, `PlanMarked`, `IterationEnds` |
| `plan.py` | `CheckPlan`, `PlanFails`, `CommitPlan`, `InsertFails`, `AssignmentEnds` |

`overlap` records where two processes were between checking something and acting on
it, or a lock was taken from a live owner, or an iteration was begun again: the
properties say what can happen without it.

### How the modules fit together

They share no variables: each abstracts the others to what their interface lets
through.  A job of ExecutionRun or ReleaseGate is started, ended and recovered as
JobQueue allows (late and double executions included); a Slack post is
EventOutbox's row; a handoff of SponsorIntake is a message of ExecutionRun; the
daemon of ControlPlane is the fair process of the other modules; the commit
`Approved` in DeliveryRelease is one that ReleaseGate's `PrepareRelease` lets pass.

### Proof modules

| Module | Extends | Theorems about |
|---|---|---|
| `JobQueueProofs` | JobQueue | types, recoverable jobs, worktrees, outcomes |
| `JobQueueOwnership` | JobQueueProofs | one executor per job, under `SafeSettings` |
| `EventOutboxProofs` | EventOutbox | claims, duplicates, held rows |
| `ReleaseGateProofs` | ReleaseGate | evidence, handoffs, what is prepared and released |
| `DeliveryReleaseProofs` | DeliveryRelease | what is published, tags, gates |
| `ExecutionRunProofs` | ExecutionRun | completion, escalation, next actions, refinement of RunContract |
| `SponsorIntakeProofs` | SponsorIntake | effects, answers, ids, previews |
| `ControlPlaneProofs` | ControlPlane | locks, executions, iterations |

The modules whose name begins with MC declare the model values, give the
higher-order constants and the symmetry sets.

## 4. Runs

| Run | Instance | Properties |
|---|---|---|
| queue_one_job | 1 job, 2 workers, dispatcher, recovery, all commands but pause and drift; leases may expire under the worker; MaxAttempts 2, LeaseBound 2 | `TypeOK`, `ActiveJobHasLease`, `OutcomeSticks` |
| queue_safe_settings | 1 job, 3 workers, leases outlive runs; MaxAttempts 3, LeaseBound 3 | `SafeOneExecutor`, `ExecutorHoldsLease`, `AttemptsPaidFor` |
| queue_two_jobs | 2 jobs in one worktree, 2 workers, pause, drift, invalidation | `WorktreeExclusive` |
| queue_live | 1 job, 2 workers, crashes, cancellation, fair daemon | `RunningIsResolved` |
| queue_default_lease | default settings, 2 workers | `OneExecutor` is violated |
| outbox | 3 rows in two streams, one unroutable and one detailed, batches of 2, 2 tries, 1 crash; two dispatchers with lost answers and level changes, or one with lost and refused posts and slow batches; fair dispatchers | `ClaimExclusive`, `DuplicatesArePaid`, `AtLeastOnce`, `HeldBehindUnsettled`, `EventuallySettled` |
| delivery_tags | 2 callers, 2 releases, 2 versions, 3 commits, 2 builds, three contracts | `PublishedIsComplete`, `OneReleasePerTag`, `AssetsOfOneBuild`, `TagAtCandidate`, `GatesStayPassed` |
| delivery_verified | 1 caller, 1 release, 2 builds | `PublishedWasVerified` is violated |
| gate_rework | 1 assessor and the manager, 2 candidates and one of the rework, 4 rows, one job executed twice | `TypeOK`, `PreparedIsAssured`, `ReleasedIsAssured`, `OneHandoff`, `EvidenceImmutable` |
| run_serial | 1 handler, 3 messages, 2 runs, 2 jobs, 1 finding, MaxCycles 2, MaxRecurrence 1, fair recovery | `CompletedIsDelivered`, `EscalationIsEarned`, `RecurrenceBounded`, `KeepsContract`, `FailureLeavesNextAction`, `OutstandingSettles` |
| intake | 2 messages in seven pairs of kinds, one of them in two envelopes, any redelivery, 1 fault, 1 registration by the operator, fair daemon | `EffectsPaidFor`, `SilenceIsPaid`, `IdsUsedOnce`, `CreatedKeepsRepo`, `ExecutedWasShown`, `EventuallyHandled` |
| control | 3 processes of any kind in 2 slots, 2 faults, files as on Windows, fair daemons | `SingleDaemon`, `OperationsExclude`, `OnceUnlessOverlapping`, `ReadyWasPassed`, `StatusCatchesUp` |

The largest are queue_one_job (2.7 million states), delivery_tags (1.9 million),
queue_two_jobs (1.2 million), control (0.9 million), intake and
queue_safe_settings (0.6 million each) and run_serial (0.5 million); the slowest,
queue_one_job and intake, take about two and a half minutes on two cores.  The type invariants of EventOutbox, DeliveryRelease,
ExecutionRun, SponsorIntake and ControlPlane hold on the same instances; the
configurations do not repeat them.

**Why the bounds are enough.**  The interesting cases of the queue need a first
execution that outlives its lease, a recovery that read before somebody else's
write, and a second execution: two workers besides dispatcher and recovery, and
two leases, give all of them; the safe run has one of each more so that a stale
recovery row can be two leases old.  Two attempts reach both RETRY_WAIT and
FAILED.  In the outbox three rows with batches of two make one batch end with a
row still outside it, and two tries reach "dead".  In the gate four rows hold two
handoffs (assessor and manager, first and rework) or one with two retries.  In
the delivery pipeline two releases may share one version, which is the case
`OneReleasePerTag` is about, and two builds tell old bytes from new.

In run_serial the third message meets a run that the first two have left in any
state: ended, waiting, or with outstanding work.  The limits of the remediation
policy (3 and 2 in the code) are one smaller, so that both are reached with two
jobs.  In intake two messages can compete for the thread's proposal, for the
registry or for the channel's creation key; the pairs that have nothing in common
are left out.  IdBound exceeds the ids that two creations and an operator can use.
In control each property is about two processes that race; the third start is the
one that meets what they have left behind.

LeaseBound, RowBound, RerunBound, CrashBound, BuildBound, RunBound, JobBound,
MessageBound, OperatorBound, StartBound and FaultBound stand in guards and only cut
behaviours short; therefore most runs do not check for deadlock.

**Symmetry** is used over workers, callers and, in the gate, the candidates of the
first delivery, in runs without liveness properties only.

**Fairness.**  `JobQueue!FairSpec`: weak fairness of the recovery pass and of the
dispatcher (the daemon loop calls both over and over; it goes on after every
exception but two errors of the lock and of identity, daemon.py:159-226), of every
worker's own steps (threads run and the agent has a timeout), and of the passing
of time.  Crashes and commands are not fair.  `EventOutbox!FairSpec`: every
dispatcher claims again and goes on with its batch (the same loop calls
`dispatch_event_outbox` twice), claims lapse.  `ExecutionRun!FairSpec`: recovery
lists and handles runs (every turn of the loop), the remediation transaction ends;
sponsor messages and handlers are not fair.  `SponsorIntake!FairSpec`: the daemon
goes on with its items and leases end; nothing is assumed of Slack.
`ControlPlane!FairSpec`: a daemon that runs goes on, also with its next pass, and so
does an evaluation, which may hold SQLite's write lock; requests, planners,
conductors, starts and faults are not fair.

## 5. Proofs

Every invariant and every action property that a run checks is also a theorem,
and so is the refinement of RunContract.  The theorems hold for any sets and
bounds that satisfy the named ASSUMEs of the modules (`ProcsAssumption`,
`SettingsAssumption`, `CommandsAssumption`, `MaxAttemptsAssumption`,
`DependsOnAssumption`, `OutboxAssumption`, `GateAssumption`, `DeliveryAssumption`,
`RecordAssumption`, `RunAssumption`, `HandlersAssumption`, `IntakeAssumption`,
`ControlAssumption`): the special process and value names are distinct from the
ordinary ones, bounds are natural numbers, the set of roles is finite, process ids
are positive.  TLC evaluates them in every run.

Each module has one inductive invariant (`TypeInv`, `OwnershipInv`, `AssuranceInv`
and `ReleaseInv`, otherwise `IInv`), a conjunction of named parts.  Its preservation is
proved part by part and action by action over lemmas that say what an action
does to the variables of that part; the properties then follow from the invariant.

**JobQueueProofs.**  `TypeCorrect` (TypeOK is always true): one lemma per group of
actions, over the operators of JobStore.  A worker between its lease and its
result must have a job in hand, which TypeOK does not say, so the proof goes
through `TypeInv`.  `ActiveJobsRecoverable` (ActiveJobHasLease): every write that
makes a job LEASED or RUNNING comes with a new lease, and every release of a lease
comes with a status outside those two.  The stale recovery write is the delicate
case: it releases a lease only if its id is still the one it read, and always
moves the job out of LEASED/RUNNING.  `WorktreesAreExclusive` and `OutcomesStick`
need nothing beyond the types: `StepMoves` shows that whatever a step writes, a job
becomes active only by a lease whose transaction has looked for a holder of its
worktree, and that a disqualifying outcome is followed by another one or by
SALVAGED.  A transaction that writes back stale rows before it leases is a chain of
such moves (`MovesChain`).

**JobQueueOwnership.**  `OneExecutorHolds`, `ExecutorOwnsLease` and
`AttemptsArePaid` under `SafeSettings`.  None of the three is inductive.
`OwnershipInv` adds: lease ids do not exceed the number granted; an executing
worker holds the unreleased and unexpired lease of its job (`Owners`); no scan
result in anybody's hands, however old, names the lease of an executing worker
(`RowsSpare`); attempts are below the id of an active lease, for jobs (`Paid`) and
for remembered rows (`RowsPaid`).  With these, `recover_expired_leases` may write
rows of any age: it can only touch leases that have ended.

**EventOutboxProofs.**  `ClaimsAreExclusive`: while no batch outlives its claims, all
of it is claimed and not lapsed, so that no other claim can take it (`ClaimInv`).
`DuplicatesPaid`: the posts of a row are at most its failed attempts and the crashes,
plus one only while its post is unmarked or when it is delivered (`PaidInv`).
`DeliveredWasShown`: a row is marked only by the dispatcher that posted it
(`PostedInv`, `ShownInv`).  `HeldIsBehindUnsettled`: a dispatcher holds rows behind rows
of its batch that come before all it has still to do and that it has left pending or
dead (`HoldingInv`); therefore whatever settles such a row also releases what is
held behind it (`BlockedInv`).

**ReleaseGateProofs.**  `StepShape` shows that every step keeps all rows but for
status, executions and pending results, appends a complete handoff for a delivery
that has none, or appends retries to a candidate whose gate is INCONCLUSIVE.
`EvidenceStays` (EvidenceImmutable) follows at once.  For `PreparedStaysAssured`,
`AssuranceInv` adds that rows carry candidates of their own delivery, that a candidate
with a row has one of every role, and that all rows of an accepted candidate have
passed.  The third part is what keeps a candidate assured: no retry can be
appended to it (its gate is PASSED, not INCONCLUSIVE), no handoff (its delivery has
rows), and no verdict can change.  `HandedOffOnce` and `ReleasesAreAssured` go through
`ReleaseInv`: the rows of a delivery are of one candidate (`OneCandidate`); before a
rework is ordered only commits of the first delivery are integrated and bound, and
afterwards the first one satisfies no dependency (`Replaced`); and an approval leaves
behind a delivery that has its rows, and passed ones if they are of the bound
commit (`Cleared`).  The gate reads the last row of each role, hence the lemma that
a non-empty set of rows has a last one (`LastOf`).

**DeliveryReleaseProofs.**  `PublishedInFull`, `TagsAreNotShared`, `AssetsFromOneBuild`,
`TagIsAtCandidate` and `GatesStay`.  The invariant follows a publication: who has
written a build or talks to GitHub holds SQLite's write lock (`LockInv`); what lies in
an out directory or was read from it comes from the candidate of that release
(`BuildInv`); with a run, the files of a directory are of one build, and nobody
writes or reads them in the middle of another's packaging or publication (`RunInv`); gates that were passed when a publication began stay passed (`GateInv`);
what was uploaded so far are the files the caller read, under a tag that nobody has
published (`UploadInv`); and a tag is at the candidate of some release of its version
(`TagInv`).  The lock is what the proof turns on: between the first upload and the
commit nobody else writes, although everything before it was read without the lock.

**ExecutionRunProofs.**  `RunsCompleteDelivered`, `EscalationsAreEarned` and
`RecurrenceIsBounded` for any number of handlers.  An escalation rests on `SeenInv`: the
cycles that a handler counted earlier still exist when it escalates, as cycles and
recurrences only grow.
`FailuresLeaveNextAction` is the action property.  `RunsKeepContract` is the
refinement of RunContract, under the hypothesis `OneHandler` (the setting of
run_serial; with two handlers it is false, section 7): the initial states map to
initial states and each action to one of RunContract's four or to a stutter, which
needs that a run is announced exactly when it has ended and that a handler at work
has a run that has not (`EndInv`).

**SponsorIntakeProofs.**  `EffectsArePaidFor`: the dedup keys of a message are claimed
before its effect and stay claimed (`EffectInv`); a slash command, which has none, has
had its effect once more than there were faults only when it is past it
(`SlashInv`).  `SilenceIsPaidFor`: the messages that were begun, are in nobody's hand and
have no answer are no more than the faults (`SwallowedInv`); every step adds at most
one to that set, and one that does is a fault.  `IdsAreUsedOnce` and
`CreatedKeepsItsRepo`: an id whose registration returned stays reserved and keeps its
repository, and the one in hand is reserved for nobody else, also where the registry
is written from an older snapshot (`CreationInv`); the clean-up of a failed creation
therefore never meets an earlier project.  `ExecutedWasShownFirst`: the proposals that
were executed unseen, together with the pending one if its preview is saved and its
reply lost, are no more than the faults (`UnseenInv`); saving the preview and showing
it are two steps, so that the number of executed ones alone is not inductive.

**ControlPlaneProofs.**  `OneDaemon`: who serves has the lock file open, and an open
file is not removed on Windows (`FileInv`).  `OperationsAreExclusive`: unless a lock
was taken from a live owner, it names the process that runs under it (`LockInv`).
`OnceWithoutOverlap`: for the idempotency key, the decision and the plan, at most one
process is between check and act and nothing was done before it (`KeyInv`,
`DecisionInv`, `PlanInv`); the window needs no such condition (`WindowInv`).
`ReadyOnlyPassed`: there is one conductor, and once a stage was marked without being
passed none but a dry run that is about to end (`IterationInv`).

**What the proofs corrected.**  Two properties held on the instances and turned out
not to hold in general:

* `HeldBehindUnsettled` said that a held row is never behind another held row.  With
  three rows in a stream it can be: a dispatcher dies with the oldest row claimed, the
  next batch fails to post the second and holds the third behind it; then the claim
  lapses, the oldest fails too, and the second is held behind it.  The instance has
  at most two rows in a stream; the theorem covers streams of any length.
* `ReleasedIsAssured` spoke of releases whose commit is the delivery's current
  candidate.  Four executions of one delivery refute this: the assessed candidate can
  be brought back for the evaluation and replaced again after it.  It now speaks of
  commits that were handed to assurance (section 7).

**Model-checked only**: the liveness properties `RunningIsResolved`,
`EventuallySettled`, `OutstandingSettles`, `EventuallyHandled` and `StatusCatchesUp`.
They rest on fairness, hence on ENABLED, which the proof system does not handle.

## 6. Disagreements found

Two runs show one:

* **A leased job is not owned by its worker** (queue_default_lease).
  `docs/phase3/baseline.md:84` says a LEASED or RUNNING row is owned by its
  worker.  With the default settings the lease expires in the middle of a run,
  recovery gives the job to a second worker, and the first one's result is
  accepted too.
* **A published package may never have been verified** (delivery_verified).
  `package_release` does not reset VERIFY_GATE; `publish_release` checks only it.

The models contain these too, as the code has them, without a run of their own:

* RELEASE is promoted after an INTEGRATION and after an assessor, but its gates
  also wait for the QA manager, after which nothing looks (worker.py:694; compare
  `docs/phase3/baseline.md:82`): `Promoted` is not part of `Aggregate`.
* The questions of an accepted plan are looked at after its jobs were created
  (intake.py:398), although the answer says that decisions come first
  (intake.py:408): `PlanAsks`.
* The checkpoint of a failed or dry stage lets the next run of the iteration skip
  it: `ReadyWasPassed` therefore excepts a conductor that was started again.
* Where open files can be removed, two daemons that find one stale lock file can
  both run: `SingleDaemon` is about Windows.
* Project requests by slash command share the creation key of their channel, so
  that the second one is answered with the first project: `KeyOf`.
* An exception after the dedup keys of a message were claimed costs the message.
  `release_slack_events` is there to "Release durable claims so Slack can retry after
  an unhandled processing failure." (store.py:3236), but the worker only puts the item
  back to pending (slack_ingress.py:358-375); its next execution finds the keys taken
  and marks it succeeded without an answer.  `SilenceIsPaid` charges these messages to
  the faults: it says that nothing else loses one, not that none is lost.
* `persist_registry` says "A failed persist leaves the previous file (or absence of
  file) unchanged." (registry.py:241-242), but reads the file back after `os.replace`
  (registry.py:279).  If that fails the clean-up of project_creation.py:658-662 frees
  the id and removes the tree of a project whose entry is in the registry:
  `CreationFails` after `RegisterPersist`.  `CreatedKeepsRepo` is about registrations
  that returned.
* Without an active run publishing and packaging do not exclude each other, and the
  files are written and read one by one (python_desktop.py:77-97, service.py:631-638):
  a package and an SBOM of two builds can be published together.  `AssetsOfOneBuild`
  claims one build with a run, and the candidate's commit always.
* A preview makes its proposal approvable before the reply that shows it exists
  (slack_chatgpt.py:424): after a fault in between, the sponsor's next approval executes
  a proposal that nobody saw.  `ExecutedWasShown` charges these to the faults.
* A failed ingress item goes back to pending without counting the attempt, so that
  its limit is never reached.

## 7. Limits of the models

* ReleaseGate executes INTEGRATION and RELEASE one at a time, and has one story.
  Remediation of a FAILED gate is not in it; a delivery that failed QA gets out
  by a rework.
* `ReleasedIsAssured` speaks of released commits that were handed to assurance for
  the delivery the integration stands for.  Others can be released: the gate reads
  the evidence of the delivery's current candidate, never of the commit that was
  integrated (release_readiness.py:270), so a rework ordered after the integration,
  or a late execution of the delivery that brings the assessed candidate back, lets a
  commit pass that nobody was asked to assess.
* The RELEASE job's gate takes the last row of each role.  With two retries in
  flight a fail followed by a pass reads as a pass; `PreparedIsAssured` is
  therefore stated of `prepare_release`, which looks at all rows.
* `ClaimExclusive` and `DuplicatesArePaid` exclude batches that outlive their claims
  (25 posts of up to 20 s, claims of 300 s), `AtLeastOnce` excludes refused posts,
  `HeldBehindUnsettled` changes of level: in these cases they fail in the code.
* Terminal job statuses are not final: a stale recovery write may turn SUCCEEDED
  into RETRY_WAIT, so no property claims it.
* `max_parallel` is not claimed either: futures that a drain gave up run on.
* In DeliveryRelease versions are inputs, the contract does not change, and the
  gate of a commit (`Approved`) is fixed; ReleaseGate has how it comes about.
* `KeepsContract` holds for one handler at a time.  Two handlers on one run can
  close it twice: `_ensure_release_run_closed` reads before its transaction
  (run_state.py:67, `CloseRead` and `CloseWrite`).
* `FailureLeavesNextAction` speaks of handlers that leave a failure in an orderly
  way.  One that dies leaves what is there, and recovery does not add anything to
  a run without jobs.
* Worker calls from within a handler's transaction fail (the job is not visible
  yet), so remediation work in ExecutionRun always ends FAILED and its job is left
  to the daemon.
* In SponsorIntake one thread has one proposal at a time.  Two pending ones for
  two projects make every approval ambiguous, and refused.
* `SilenceIsPaid` excepts project requests by slash command, `EffectsPaidFor` charges
  repeated slash commands to faults: they have no dedup keys.
* `OnceUnlessOverlapping` and `OperationsExclude` except what the code does not
  prevent: requests or decisions that overlap between check and write, a server that
  dies before it keeps its answer, and locks that are taken from a live owner after
  two hours.
* In ControlPlane all requests carry one idempotency key and all decisions,
  plans and windows are one each.

## 8. Not modelled

Pure views (reports, projections), text (prompts, Slack blocks, intents, plan
documents), external programs (Cursor, git, PyInstaller), secrets, CLI parsing and
the HTTP routes that only translate, the dashboard, migrations, learning.  They
keep no state that a protocol depends on.  projectctl of the delivery repositories
has a database of its own, used by one command at a time, and is a choice wherever
ProjectOS asks it.  Within modelled components `PROJECT.json` notes what is left
out: respawning of the HTTP and Slack processes, multi-story releases, the
FAILED-gate retest, opening of decisions, reports of stalled runs.

## 9. Plan

1. `JobOwnership`: an abstract queue in which a job has at most one owner, shown to
   be implemented by JobQueue under SafeSettings; its safety part follows the lemmas
   of JobQueueOwnership.
2. Process supervision: respawning, and a stop that meets a respawn.
3. A second story in ReleaseGate, for releases that wait for several deliveries.

## 10. Running

    tlc -workers 2 -config GateRework.cfg MCReleaseGate
    tlapm JobQueueOwnership.tla

`PROJECT.json` lists every run with its module and configuration, the source lines
of every definition, and for every checked property a plausible fault of the code
(an operator such as `RecoverAnyLease` or `HandoffAlways`) that makes it fail.
