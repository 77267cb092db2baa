---------------------------- MODULE ExecutionRun ----------------------------
(***************************************************************************)
(* Execution runs and the PM agent that drives them: sponsor handoffs and     *)
(* directives (pm_agent.py), authorised work (pm_work_execution.py), the QA   *)
(* remediation loop (pm_remediation.py), release orchestration and what it    *)
(* schedules after a failure, legacy proposals (pm_capabilities.py), the      *)
(* durable next actions (run_next_actions.py), and recovery.                  *)
(*                                                                           *)
(* A handler is the process or thread that works on one sponsor message; all  *)
(* messages belong to one Slack thread.  One action is one transaction of the *)
(* control database, or the reads between two.  The remediation loop is one   *)
(* transaction of several steps: its handler is the writer, and nothing else  *)
(* happens meanwhile (a crash in it is a crash before it).                    *)
(*                                                                           *)
(* The worker a handler calls in the middle of a transaction runs on another  *)
(* connection, where the job just created does not exist yet: the remediation *)
(* work fails, and its job stays READY for the daemon.                        *)
(***************************************************************************)
EXTENDS Integers, FiniteSets

CONSTANTS
    Handlers,
    Findings,          \* fingerprints of QA findings
    RunBound, JobBound, MessageBound,
    MaxCycles,         \* DEFAULT_MAX_REMEDIATION_CYCLES (3)
    MaxRecurrence      \* DEFAULT_MAX_SAME_FINDING_RECURRENCE (2)

ASSUME RunAssumption ==
    /\ RunBound \in Nat \ {0} /\ JobBound \in Nat /\ MessageBound \in Nat
    /\ MaxCycles \in Nat \ {0} /\ MaxRecurrence \in Nat \ {0}

NoOne == "nobody"

ASSUME HandlersAssumption == NoOne \notin Handlers

Runs == 1..RunBound
NoRun == 0
Jobs == 1..JobBound
NoJobYet == 0

VARIABLES
    status,      \* execution_runs.status, "absent" before the INSERT
    kind,        \* execution_runs.request_type
    closing,     \* run -> terminal events in projectos_events
    threadRun,   \* run of the thread's latest handoff
    proposal,    \* whether the thread has a pending proposal
    job,         \* orchestration_jobs: status, name and run of each row
    work,        \* remediation_work.status of the work a job carries, or "none"
    cycle,       \* remediation_work.remediation_cycle
    next,        \* job -> action types of its pending run_next_actions
    started,     \* run -> finding -> REMEDIATION_STARTED events that name it
    delivered,   \* runs with a publication that met the sponsor's outcome
    pc, mine,    \* handler -> where it is, and the run it works on
    seen,        \* handler -> remediation cycles it has counted
    found,       \* handler -> findings of the gate it evaluated
    made,        \* handler -> job its intake has just created, or NoJobYet
    writer,      \* handler in the middle of the remediation transaction
    listed,      \* runs recovery found RUNNING and has not handled yet
    messages     \* sponsor messages accepted so far

runs == <<status, kind, closing, threadRun, proposal, started, delivered>>
jobs == <<job, work, cycle, next>>
procs == <<pc, mine, seen, found, made, writer>>
vars == <<runs, jobs, procs, listed, messages>>

Terminal == {"COMPLETED", "BLOCKED", "ESCALATED"}
RunStatuses == {"absent", "PLANNING", "RUNNING", "WAITING_FOR_SPONSOR"} \cup Terminal
JobStatuses == {"absent", "READY", "RUNNING", "RETRY_WAIT", "SUCCEEDED", "BLOCKED"}
TerminalJob == {"SUCCEEDED", "BLOCKED"}
ExecutableJob == {"READY", "RUNNING", "RETRY_WAIT"}
JobNames == {"none", "INTAKE", "REMEDIATION", "WORK_EXEC_SCHEDULE", "SPONSOR_DECISION",
             "PUBLICATION_RETRY", "READINESS_RETRY", "ASSURANCE"}
\* names that hold the run's id alone: orchestration_jobs.human_id is UNIQUE
OncePerRun == {"WORK_EXEC_SCHEDULE", "SPONSOR_DECISION", "READINESS_RETRY"}
ActionTypes == {"EXECUTABLE_JOB", "REMEDIATION_WORK", "PM_QUEUE", "SPONSOR_WAIT",
                "SCHEDULED_RETRY", "ACTIVE_ASSESSMENT"}
Places == {"idle", "submit", "tag", "asks", "preview", "plan", "qa", "loop", "pending",
           "prepare", "package", "publish", "raised", "close"}

NoJob == [status |-> "absent", name |-> "none", run |-> NoRun]

TypeOK ==
    /\ status \in [Runs -> RunStatuses]
    /\ kind \in [Runs -> {"RELEASE", "WORK"}]
    /\ closing \in [Runs -> SUBSET Terminal]
    /\ threadRun \in Runs \cup {NoRun}
    /\ proposal \in BOOLEAN
    /\ job \in [Jobs -> [status : JobStatuses, name : JobNames, run : Runs \cup {NoRun}]]
    /\ work \in [Jobs -> {"none", "ASSIGNED", "FAILED"}]
    /\ cycle \in [Jobs -> 0..MaxCycles]
    /\ next \in [Jobs -> SUBSET ActionTypes]
    /\ started \in [Runs -> [Findings -> Nat]]
    /\ delivered \in SUBSET Runs
    /\ pc \in [Handlers -> Places]
    /\ mine \in [Handlers -> Runs \cup {NoRun}]
    /\ seen \in [Handlers -> Nat]
    /\ found \in [Handlers -> SUBSET Findings]
    /\ made \in [Handlers -> Jobs \cup {NoJobYet}]
    /\ writer \in Handlers \cup {NoOne}
    /\ listed \in SUBSET Runs
    /\ messages \in 0..MessageBound

Init ==
    /\ status = [r \in Runs |-> "absent"]
    /\ kind = [r \in Runs |-> "WORK"]
    /\ closing = [r \in Runs |-> {}]
    /\ threadRun = NoRun /\ proposal = FALSE
    /\ job = [j \in Jobs |-> NoJob]
    /\ work = [j \in Jobs |-> "none"]
    /\ cycle = [j \in Jobs |-> 0]
    /\ next = [j \in Jobs |-> {}]
    /\ started = [r \in Runs |-> [f \in Findings |-> 0]]
    /\ delivered = {}
    /\ pc = [h \in Handlers |-> "idle"]
    /\ mine = [h \in Handlers |-> NoRun]
    /\ seen = [h \in Handlers |-> 0]
    /\ found = [h \in Handlers |-> {}]
    /\ made = [h \in Handlers |-> NoJobYet]
    /\ writer = NoOne /\ listed = {} /\ messages = 0
-----------------------------------------------------------------------------
(* Jobs, remediation work and next actions. *)

Free(j) == job[j].status = "absent" /\ \A i \in Jobs : i < j => job[i].status # "absent"

\* A name taken: create_job fails on the UNIQUE human_id, the handler's
\* transaction is rolled back and the exception ends the handler.
Taken(r, n) == n \in OncePerRun /\ \E j \in Jobs : job[j].name = n /\ job[j].run = r

\* create_job and persist_run_next_action
AddJob(j, r, n, s, actions) ==
    /\ Free(j) /\ ~Taken(r, n)
    /\ job' = [job EXCEPT ![j] = [status |-> s, name |-> n, run |-> r]]
    /\ next' = [next EXCEPT ![j] = actions]

\* execute_remediation_work: the worker looks for a job that only the caller's
\* transaction can see (production_remediation_worker), or there is no worker.
WorkResult == "FAILED"

\* create_remediation_work
AddWork(j, r, c, w, actions) ==
    /\ AddJob(j, r, "REMEDIATION", "READY", actions)
    /\ work' = [work EXCEPT ![j] = w]
    /\ cycle' = [cycle EXCEPT ![j] = c]

JobsOf(r, S) == {j \in Jobs : job[j].run = r /\ job[j].status \in S}

\* list_outstanding_remediation_work
Outstanding(r) == {j \in JobsOf(r, JobStatuses) : work[j] = "ASSIGNED"}

\* count_remediation_cycles
CycleCount(r) == Cardinality({cycle[j] : j \in {i \in JobsOf(r, JobStatuses) : work[i] # "none"}})

\* _next_action_is_live, for the pending action a of job j
Live(j, a) ==
    \/ a = "SPONSOR_WAIT" /\ status[job[j].run] = "WAITING_FOR_SPONSOR"
    \/ /\ job[j].status \notin TerminalJob
       /\ a = "REMEDIATION_WORK" => work[j] = "ASSIGNED"

LiveActions(r) == {j \in JobsOf(r, JobStatuses) : \E a \in next[j] : Live(j, a)}

\* has_durable_next_action
Durable(r) ==
    \/ status[r] = "WAITING_FOR_SPONSOR"
    \/ JobsOf(r, ExecutableJob) # {}
    \/ Outstanding(r) # {}
    \/ LiveActions(r) # {}

\* classify_run_next_action
Inert(r) == status[r] \in {"PLANNING", "RUNNING"} /\ ~Durable(r)

\* reconcile_run_next_actions, after the jobs in ended have ended: the actions
\* of ended jobs are completed, and an active run that has executable jobs but
\* no live action gets one for the first of them.
Reconciled(r, ended) ==
    LET left == {j \in JobsOf(r, ExecutableJob) : j \notin ended}
        live == {j \in LiveActions(r) \ ended : job[j].status \notin TerminalJob}
        first == CHOOSE j \in left : \A i \in left : j <= i
        active == r # NoRun /\ status[r] \notin Terminal
    IN  [j \in Jobs |->
            IF j \in ended \/ (active /\ j \in JobsOf(r, TerminalJob)) THEN {}
            ELSE IF active /\ live = {} /\ left # {} /\ j = first
            THEN next[j] \cup {"EXECUTABLE_JOB"} ELSE next[j]]
-----------------------------------------------------------------------------
(* Closing and pausing. *)

\* Mutant of Close: no look at the events already recorded.
CloseAgain(r, s) ==
    /\ status' = [status EXCEPT ![r] = s]
    /\ closing' = [closing EXCEPT ![r] = @ \cup {s}]

\* close_execution_run inside a transaction that has already written
Close(r, s) ==
    IF closing[r] # {} THEN UNCHANGED <<status, closing>>
    ELSE /\ status' = [status EXCEPT ![r] = s]
         /\ closing' = [closing EXCEPT ![r] = {s}]

Wishes == {"installer", "publication"}
Baseline == {"candidate_provenance", "verify_gate"}

\* build_acceptance_contract: what the handoff's desired outputs and the kind
\* of the run require (the policy of the delivery contract adds likewise)
EffectiveRequirements(k, wanted) == wanted \cup (IF k = "RELEASE" THEN Baseline ELSE {})

\* evaluate_effective_requirements, against the release's evidence
MissingOutputs(required, evidence) == required \ evidence

\* Mutant of Satisfied: the outcome is not evaluated.
SatisfiedAlways(k, wanted, evidence) == TRUE

\* evaluate_sponsor_outcome: a release without a record never is.
Satisfied(k, wanted, evidence) ==
    IF evidence = {} THEN k # "RELEASE"
    ELSE MissingOutputs(EffectiveRequirements(k, wanted), evidence) = {}

\* validate_event_truthfulness, before RUN_COMPLETED is recorded
Truthful(r, wanted, evidence) == kind[r] = "RELEASE" => Satisfied(kind[r], wanted, evidence)

\* pause_run_for_sponsor_decision: whatever the status is
Pause(r) == status' = [status EXCEPT ![r] = "WAITING_FOR_SPONSOR"]

Go(h, p) == pc' = [pc EXCEPT ![h] = p]
Stay(h) == UNCHANGED <<mine, seen, found, made, writer>>
Leave(h) ==
    /\ Go(h, "idle") /\ made' = [made EXCEPT ![h] = NoJobYet]
    /\ UNCHANGED <<mine, seen, found, writer>>
Move(h, p) == Go(h, p) /\ Stay(h)
At(h, p) == pc[h] = p /\ writer = NoOne
-----------------------------------------------------------------------------
(* A sponsor message arrives: accept_sponsor_handoff.  The message itself was  *)
(* stored on the same connection, so that the handler holds the write lock.    *)

Message(h) ==
    /\ At(h, "idle") /\ messages < MessageBound
    /\ messages' = messages + 1
    /\ UNCHANGED <<closing, started, delivered, seen, found, made, writer, listed>>

ActiveRun == threadRun # NoRun /\ status[threadRun] \notin Terminal

\* classify_request; DELIVERY, QUALITY and DEFECT are handled as WORK is.
Requests == {"RELEASE", "WORK"}

\* classify_sponsor_execution_authority: an authenticated sponsor on a trusted
\* ingress, and words that order the work
Authority(trusted, imperative) == trusted /\ imperative

\* merge_authority_into_constraints and authority_from_handoff: what the
\* constraints of the message claim is stripped, only a grant is kept.
Authorized(granted, claimed) == granted

\* create_sponsor_handoff and mark_handoff_accepted
CreateHandoff(r) == threadRun' = r

\* A new run, also in a thread whose run is still active: the words of the
\* message decide whether it is a directive (classify_sponsor_ingress).
NewRun(h, r, k) ==
    /\ Message(h)
    /\ status[r] = "absent" /\ \A q \in Runs : q < r => status[q] # "absent"
    /\ kind' = [kind EXCEPT ![r] = k]
    /\ CreateHandoff(r)
    /\ mine' = [mine EXCEPT ![h] = r]
    /\ UNCHANGED jobs

AcceptRelease(h, r) ==
    /\ NewRun(h, r, "RELEASE")
    /\ status' = [status EXCEPT ![r] = "PLANNING"]
    /\ Go(h, "plan")
    /\ UNCHANGED proposal

\* begin_authorized_work_execution commits before it calls the intake
AcceptAuthorizedWork(h, r) ==
    /\ NewRun(h, r, "WORK")
    /\ status' = [status EXCEPT ![r] = "PLANNING"]
    /\ Go(h, "submit")
    /\ UNCHANGED proposal

\* _orchestrate_work_handoff without authority: a proposal, then its preview
AcceptWork(h, r) ==
    /\ NewRun(h, r, "WORK")
    /\ status' = [status EXCEPT ![r] = "WAITING_FOR_SPONSOR"]
    /\ proposal' = TRUE
    /\ Go(h, "preview")

\* A handoff with a run of its own, by its kind and its authority
AcceptHandoff(h, r, k, granted) ==
    \/ k = "RELEASE" /\ AcceptRelease(h, r)
    \/ k = "WORK" /\ granted /\ AcceptAuthorizedWork(h, r)
    \/ k = "WORK" /\ ~granted /\ AcceptWork(h, r)

\* _apply_active_run_directive, of request type k; a RELEASE or a DELIVERY is not
\* replanned unless its words ask for it (directive_requires_replan)
Directive(h, k) ==
    /\ Message(h) /\ ActiveRun
    /\ LET r == threadRun IN
       /\ status' = [status EXCEPT ![r] = IF @ = "WAITING_FOR_SPONSOR" THEN "RUNNING" ELSE @]
       /\ \/ UNCHANGED jobs
          \/ \E j \in Jobs : AddWork(j, r, 0, WorkResult, {})
       /\ Go(h, IF k = "RELEASE" THEN "plan" ELSE "idle")
       /\ mine' = [mine EXCEPT ![h] = r]
    /\ UNCHANGED <<kind, threadRun, proposal>>
-----------------------------------------------------------------------------
(* Authorised work: begin_authorized_work_execution. *)

Recovery(j, r) ==
    /\ AddJob(j, r, "WORK_EXEC_SCHEDULE", "READY", {"EXECUTABLE_JOB"})
    /\ status' = [status EXCEPT ![r] = "RUNNING"]

\* assess_work_request: whether the request leaves a decision to the sponsor
Assessments == {"clear", "open"}

\* run_plan: an accepted plan may ask the sponsor questions of its own.
Plans == {"rejected", "accepted", "accepted_with_questions"}

\* IntakeService._run plans only a clear request ...
JobsCreated(assessed, plan) == assessed = "clear" /\ plan # "rejected"

\* ... and looks at the plan's questions after run_plan has created its jobs.
IntakeStatus(assessed, plan) ==
    IF assessed = "open" \/ plan = "accepted_with_questions" THEN "needs_sponsor_decision"
    ELSE IF plan = "rejected" THEN "rejected" ELSE "submitted"

\* The intake asks the sponsor, or fails: record_operational_failure and
\* _schedule_work_execution_recovery set RUNNING whatever the status is.
SubmitRefused(h) ==
    /\ At(h, "submit")
    /\ \E assessed \in Assessments, plan \in Plans :
        /\ ~JobsCreated(assessed, plan)
        /\ IF IntakeStatus(assessed, plan) = "needs_sponsor_decision"
           THEN Pause(mine[h]) /\ UNCHANGED jobs
           ELSE \E j \in Jobs : Recovery(j, mine[h]) /\ UNCHANGED <<work, cycle>>
    /\ Leave(h)
    /\ UNCHANGED <<kind, closing, threadRun, proposal, started, delivered, listed, messages>>

\* The intake commits a job that carries no run yet.
Submit(h) ==
    /\ At(h, "submit")
    /\ \E j \in Jobs, assessed \in Assessments, plan \in Plans :
        /\ JobsCreated(assessed, plan)
        /\ AddJob(j, NoRun, "INTAKE", "READY", {})
        /\ made' = [made EXCEPT ![h] = j]
        /\ Go(h, IF IntakeStatus(assessed, plan) = "submitted" THEN "tag" ELSE "asks")
    /\ UNCHANGED <<runs, mine, seen, found, writer, work, cycle, listed, messages>>

\* The run is paused; the plan's jobs stay, belong to no run, and are run.
PlanAsks(h) ==
    /\ At(h, "asks")
    /\ Pause(mine[h]) /\ Leave(h)
    /\ UNCHANGED <<kind, closing, threadRun, proposal, started, delivered, jobs, listed, messages>>

\* The job is given its run; if it is still eligible it becomes the next action,
\* otherwise a recovery job does.
Tag(h) ==
    /\ At(h, "tag")
    /\ LET i == made[h]
           tagged == [job EXCEPT ![i].run = mine[h]]
       IN  \/ /\ job[i].status = "READY"
              /\ job' = tagged
              /\ next' = [next EXCEPT ![i] = @ \cup {"EXECUTABLE_JOB"}]
           \/ /\ job[i].status # "READY"
              /\ \E j \in Jobs :
                  /\ Free(j) /\ ~Taken(mine[h], "WORK_EXEC_SCHEDULE")
                  /\ job' = [tagged EXCEPT ![j] = [status |-> "READY", run |-> mine[h],
                                                   name |-> "WORK_EXEC_SCHEDULE"]]
                  /\ next' = [next EXCEPT ![j] = {"EXECUTABLE_JOB"}]
    /\ status' = [status EXCEPT ![mine[h]] = "RUNNING"]
    /\ Leave(h)
    /\ UNCHANGED <<kind, closing, threadRun, proposal, started, delivered, work, cycle,
                   listed, messages>>

\* The preview is ready: the run is paused once more.
Preview(h) ==
    /\ At(h, "preview")
    /\ Pause(mine[h])
    /\ Leave(h)
    /\ UNCHANGED <<kind, closing, threadRun, proposal, started, delivered, jobs, listed, messages>>

\* execute_pm_capability closes a run of work with success; a release run goes
\* to the orchestration instead.
Completes(r) == kind[r] = "WORK"

\* The sponsor approves the pending proposal.  The handler holds the write
\* lock, so that an intake or an orchestration that writes on its own
\* connection fails and everything is rolled back; an intake that is refused
\* writes nothing, and the run is completed all the same.
ApproveProposal(h) ==
    /\ At(h, "idle") /\ messages < MessageBound /\ proposal
    /\ messages' = messages + 1
    /\ Completes(threadRun) /\ Truthful(threadRun, {}, {})
    /\ Close(threadRun, "COMPLETED")
    /\ proposal' = FALSE
    /\ UNCHANGED <<kind, threadRun, started, delivered, jobs, procs, listed>>
-----------------------------------------------------------------------------
(* Release orchestration: _orchestrate_release_capability_impl. *)

Untouched == UNCHANGED <<kind, threadRun, proposal, listed, messages>>

GatePassed(g) == g = "PASSED"

\* The plan is published; the remediation loop counts its cycles before its
\* transaction begins.
Plan(h) ==
    /\ At(h, "plan")
    /\ seen' = [seen EXCEPT ![h] = CycleCount(mine[h])]
    /\ Go(h, "qa")
    /\ UNCHANGED <<mine, found, made, writer, runs, jobs, listed, messages>>

\* JobBound must leave room for the jobs of a remediation loop.
Room(h) == Cardinality({j \in Jobs : job[j].status = "absent"}) + seen[h] >= MaxCycles

\* INCONCLUSIVE: assurance is retried, if a producer is known
RetryAssurance(h) ==
    \/ /\ \E j \in Jobs : AddJob(j, mine[h], "ASSURANCE", "READY", {"ACTIVE_ASSESSMENT"})
       /\ Go(h, "pending") /\ UNCHANGED <<work, cycle>>
    \/ Go(h, "raised") /\ UNCHANGED jobs

\* what collect_qa_findings finds behind a failed gate
FindingSets == SUBSET Findings \ {{}}

\* emit_qa_gate_evaluation with cycles left, and what follows
QaGate(h) ==
    /\ At(h, "qa") /\ seen[h] < MaxCycles
    /\ UNCHANGED <<runs, listed, messages, mine, seen, made>>
    /\ \/ \E g \in {"PASSED", "PENDING"} :
             /\ Go(h, IF GatePassed(g) THEN "prepare" ELSE "pending")
             /\ UNCHANGED <<jobs, found, writer>>
       \/ RetryAssurance(h) /\ UNCHANGED <<found, writer>>
       \/ \E F \in FindingSets :
             /\ Room(h)
             /\ found' = [found EXCEPT ![h] = F]
             /\ writer' = h
             /\ Go(h, "loop") /\ UNCHANGED jobs

\* No cycles left before the transaction: only the gate's facts are read.
QaExhausted(h) ==
    /\ At(h, "qa") /\ seen[h] >= MaxCycles
    /\ \/ Go(h, "prepare") /\ UNCHANGED <<status, closing>>
       \/ Close(mine[h], "ESCALATED") /\ Go(h, "idle")
    /\ Stay(h) /\ Untouched /\ UNCHANGED <<jobs, started, delivered>>

\* Mutant of Recurs: recurrence is not looked at.
RecursNever(h) == FALSE

\* _finding_recurrence
Recurs(h) == \E f \in found[h] : started[mine[h]][f] >= MaxRecurrence

\* Mutant of LimitReached: the first failed gate escalates.
LimitAtOnce(h) == TRUE

\* the policy of run_qa_remediation_cycle
LimitReached(h) == seen[h] >= MaxCycles \/ Recurs(h)

\* start_remediation_cycle: its work fails, the loop counts and goes on.
RemediationCycle(h) ==
    /\ writer = h /\ ~LimitReached(h)
    /\ started' = [started EXCEPT ![mine[h]] =
            [f \in Findings |-> IF f \in found[h] THEN @[f] + 1 ELSE @[f]]]
    /\ \E j \in Jobs : AddWork(j, mine[h], seen[h] + 1, WorkResult, {})
    /\ UNCHANGED <<status, kind, closing, threadRun, proposal, delivered, pc, mine, found,
                   made, writer, listed, messages>>
    /\ seen' = [seen EXCEPT ![h] = CycleCount(mine[h])']

\* REMEDIATION_LIMIT_REACHED; the whole loop commits.
Escalate(h) ==
    /\ writer = h /\ LimitReached(h)
    /\ Close(mine[h], "ESCALATED")
    /\ Go(h, "idle") /\ writer' = NoOne
    /\ Untouched /\ UNCHANGED <<started, delivered, jobs, mine, seen, found, made>>

\* assert_nonterminal_run_has_durable_next_action: the assertion is no
\* OrchestrationError, and ends the handler just as a normal return does.
AssertNextAction(h) ==
    /\ At(h, "pending")
    /\ Leave(h) /\ UNCHANGED <<runs, jobs, listed, messages>>

\* The gate has passed: RELEASE_PREPARATION, and prepare_release succeeds.
Prepare(h) ==
    /\ At(h, "prepare")
    /\ Move(h, "package") /\ UNCHANGED <<runs, jobs, listed, messages>>

\* orchestration_blocker_from_message
Blockers == {"DELIVERY_CONTRACT_MISSING", "ORCHESTRATION_ERROR"}

\* _sponsor_decisions_required: a draft contract can be inferred unless the
\* repository's remote names no owner.
SponsorDecides(blocker, remote) == blocker = "DELIVERY_CONTRACT_MISSING" /\ ~remote

\* attempt_delivery_contract_remediation pauses the run for the sponsor; the
\* action it leaves is a PM_QUEUE whose payload says sponsor_wait.
ContractGap(h) ==
    /\ \E j \in Jobs : AddJob(j, mine[h], "SPONSOR_DECISION", "READY", {"SPONSOR_WAIT"})
    /\ Pause(mine[h]) /\ UNCHANGED <<work, cycle>>

\* ensure_release_preparation_next_action
PreparationFailed(h) ==
    /\ \E j \in Jobs : AddWork(j, mine[h], 1, "ASSIGNED", {"REMEDIATION_WORK"})
    /\ UNCHANGED status

\* prepare_release fails.  (A contract that was repaired is followed by a
\* second prepare_release that waits for the lock its own handler holds: it
\* fails, see Die, or refuses before it writes, and is a failure like others.)
PreparationBlocked(h) ==
    /\ At(h, "prepare")
    /\ \E blocker \in Blockers, remote \in BOOLEAN :
          IF SponsorDecides(blocker, remote) THEN ContractGap(h) ELSE PreparationFailed(h)
    /\ Leave(h) /\ Untouched /\ UNCHANGED <<closing, started, delivered>>

\* Mutant of PackageFailed: nothing is scheduled.
PackageFailedOnly(h) ==
    At(h, "package") /\ Leave(h) /\ UNCHANGED <<runs, jobs, listed, messages>>

\* ensure_package_failure_next_action
PackageFailed(h) ==
    /\ At(h, "package")
    /\ \E j \in Jobs : AddWork(j, mine[h], 1, "ASSIGNED", {"REMEDIATION_WORK"})
    /\ Leave(h) /\ UNCHANGED <<runs, listed, messages>>

\* package_release and verify_release, with an installer that is real
Package(h) ==
    /\ At(h, "package")
    /\ Move(h, "publish") /\ UNCHANGED <<runs, jobs, listed, messages>>

\* A placeholder installer: handle_capability_gap pauses the run.
CapabilityGap(h) ==
    /\ At(h, "package")
    /\ Pause(mine[h])
    /\ Leave(h) /\ Untouched /\ UNCHANGED <<closing, started, delivered, jobs>>

\* ensure_publication_failure_next_action
PublishFailed(h) ==
    /\ At(h, "publish")
    /\ \E j \in Jobs : AddJob(j, mine[h], "PUBLICATION_RETRY", "RETRY_WAIT", {"SCHEDULED_RETRY"})
    /\ Leave(h) /\ UNCHANGED <<runs, work, cycle, listed, messages>>

\* maybe_close_run_after_event, in the transaction of RELEASE_PUBLISHED
CloseAfterEvent(r, wanted, evidence) ==
    IF Satisfied(kind[r], wanted, evidence) /\ Truthful(r, wanted, evidence)
    THEN Close(r, "COMPLETED") ELSE UNCHANGED <<status, closing>>

\* publish_release succeeds.  The sponsor's wishes are fixed by the handoff and
\* matter here only; the evidence is what the release record shows.
Publish(h) ==
    /\ At(h, "publish")
    /\ \E wanted \in SUBSET Wishes, evidence \in SUBSET (Baseline \cup Wishes) :
        /\ delivered' = IF wanted \cup Baseline \subseteq evidence THEN delivered \cup {mine[h]}
                        ELSE delivered
        /\ CloseAfterEvent(mine[h], wanted, evidence)
    /\ Leave(h) /\ Untouched /\ UNCHANGED <<started, jobs>>

\* An OrchestrationError, or an internal defect that becomes one (its record
\* is rolled back with the transaction it is raised in).
Raise(h) ==
    /\ writer = NoOne /\ pc[h] \in {"plan", "qa", "prepare", "package", "publish"}
    /\ Move(h, "raised") /\ UNCHANGED <<runs, jobs, listed, messages>>

\* _ensure_release_run_closed reads the status and the terminal events before
\* its transaction begins.
CloseRead(h) ==
    /\ At(h, "raised")
    /\ Move(h, IF status[mine[h]] \in {"BLOCKED", "COMPLETED"} \/ closing[mine[h]] # {}
               THEN "idle" ELSE "close")
    /\ UNCHANGED <<runs, jobs, listed, messages>>

CloseWrite(h) ==
    /\ At(h, "close")
    /\ status' = [status EXCEPT ![mine[h]] = "BLOCKED"]
    /\ closing' = [closing EXCEPT ![mine[h]] = @ \cup {"BLOCKED"}]
    /\ Leave(h) /\ Untouched /\ UNCHANGED <<started, delivered, jobs>>

\* A crash, a lock not obtained within 30 s or a UNIQUE constraint ends the
\* handler and rolls its transaction back; the message is not handled again.
Die(h) ==
    /\ pc[h] # "idle" /\ writer = NoOne
    /\ Leave(h) /\ UNCHANGED <<runs, jobs, listed, messages>>
-----------------------------------------------------------------------------
(* The daemon runs the jobs, and recovery. *)

SetJob(j, s) == job' = [job EXCEPT ![j].status = s]

StartJob(j) ==
    /\ writer = NoOne /\ job[j].status = "READY"
    /\ SetJob(j, "RUNNING")
    /\ UNCHANGED <<runs, work, cycle, next, procs, listed, messages>>

\* mark_succeeded and record_worker_failure; the next actions of a terminal
\* job are completed and its run's are reconciled.
EndJob(j, s) ==
    /\ writer = NoOne /\ job[j].status = "RUNNING"
    /\ SetJob(j, s)
    /\ next' = IF s \in TerminalJob THEN Reconciled(job[j].run, {j}) ELSE next
    /\ UNCHANGED <<runs, work, cycle, procs, listed, messages>>

\* The backoff of a retry ends, or the lease of a dead worker.
Requeue(j) ==
    /\ writer = NoOne /\ job[j].status \in {"RETRY_WAIT", "RUNNING"}
    /\ SetJob(j, "READY")
    /\ UNCHANGED <<runs, work, cycle, next, procs, listed, messages>>

\* The release gate rejects a RELEASE job of a run: BLOCKED, then
\* ensure_release_readiness_remediation makes it READY again behind a PM job.
\* The second time the PM job's name is taken, and for a job that carries a
\* candidate set_job_source_provenance lacks an argument: all is rolled back,
\* and the job stays RUNNING until its lease ends.
ReadinessRetry(i) ==
    /\ writer = NoOne /\ job[i].status = "RUNNING" /\ job[i].name = "INTAKE"
    /\ job[i].run # NoRun
    /\ \E j \in Jobs :
        /\ Free(j) /\ ~Taken(job[i].run, "READINESS_RETRY")
        /\ job' = [job EXCEPT ![i].status = "READY",
                              ![j] = [status |-> "READY", name |-> "READINESS_RETRY",
                                      run |-> job[i].run]]
        /\ next' = [Reconciled(job[i].run, {i}) EXCEPT ![j] = {"PM_QUEUE"}]
    /\ UNCHANGED <<runs, work, cycle, procs, listed, messages>>

\* run_recovery lists the runs that are RUNNING ...
RecoverList ==
    /\ writer = NoOne /\ listed = {}
    /\ listed' = {r \in Runs : status[r] = "RUNNING"} /\ listed' # {}
    /\ UNCHANGED <<runs, jobs, procs, messages>>

\* Mutant of Resumed: recovery resumes only work whose job has ended.
ResumedIfEnded(r) == {j \in Outstanding(r) : job[j].status \in TerminalJob}

Resumed(r) == Outstanding(r)

\* ... and handles each in a transaction: reconcile_run_next_actions, then
\* resume_outstanding_remediation, which has no worker and fails the work.
Recover(r) ==
    /\ writer = NoOne /\ r \in listed
    /\ listed' = listed \ {r}
    /\ next' = Reconciled(r, {})
    /\ work' = [j \in Jobs |-> IF j \in Resumed(r) THEN WorkResult ELSE work[j]]
    /\ UNCHANGED <<runs, job, cycle, procs, messages>>

Accept(h) ==
    \/ \E r \in Runs, k \in Requests, trusted, imperative, claimed \in BOOLEAN :
          AcceptHandoff(h, r, k, Authorized(Authority(trusted, imperative), claimed))
    \/ \E k \in Requests : Directive(h, k)
    \/ ApproveProposal(h)

Work(h) == SubmitRefused(h) \/ Submit(h) \/ PlanAsks(h) \/ Tag(h) \/ Preview(h)

Orchestrate(h) ==
    \/ Plan(h) \/ QaGate(h) \/ QaExhausted(h) \/ RemediationCycle(h) \/ Escalate(h)
    \/ AssertNextAction(h) \/ Prepare(h) \/ PreparationBlocked(h)
    \/ Package(h) \/ CapabilityGap(h) \/ PackageFailed(h)
    \/ Publish(h) \/ PublishFailed(h) \/ Raise(h) \/ CloseRead(h) \/ CloseWrite(h)

Daemon ==
    \/ \E j \in Jobs : \/ StartJob(j) \/ Requeue(j) \/ ReadinessRetry(j)
                       \/ \E s \in {"SUCCEEDED", "BLOCKED", "RETRY_WAIT"} : EndJob(j, s)
    \/ RecoverList \/ \E r \in Runs : Recover(r)

Next == (\E h \in Handlers : Accept(h) \/ Work(h) \/ Orchestrate(h) \/ Die(h)) \/ Daemon

Spec == Init /\ [][Next]_vars

\* The daemon runs recovery in every turn of its loop, and a transaction ends.
Fairness ==
    /\ WF_vars(RecoverList) /\ \A r \in Runs : WF_vars(Recover(r))
    /\ \A h \in Handlers : WF_vars(RemediationCycle(h) \/ Escalate(h))

FairSpec == Spec /\ Fairness
-----------------------------------------------------------------------------
(* Properties. *)

\* A release run announced as completed has published a release that met the
\* sponsor's outcome: neither an approved proposal of the thread nor a
\* publication that falls short completes it (maybe_close_run_after_event,
\* execute_pm_capability).
CompletedIsDelivered ==
    \A r \in Runs : ("COMPLETED" \in closing[r] /\ kind[r] = "RELEASE") => r \in delivered

\* A run is escalated only when the policy's limit was reached: a finding
\* came back MaxRecurrence times, or MaxCycles cycles of remediation exist.
EscalationIsEarned ==
    \A r \in Runs : "ESCALATED" \in closing[r] =>
        \/ \E f \in Findings : started[r][f] >= MaxRecurrence
        \/ CycleCount(r) >= MaxCycles

\* No finding is sent to remediation more than MaxRecurrence times in a run,
\* however many directives and handlers restart the loop: the recurrence is
\* counted inside the loop's transaction.
RecurrenceBounded == \A r \in Runs, f \in Findings : started[r][f] <= MaxRecurrence

\* The refinement mapping: what the sponsor sees of a run
Contracted == [r \in Runs |-> CASE status[r] = "absent" -> "absent"
                                [] status[r] \in {"PLANNING", "RUNNING"} -> "open"
                                [] status[r] = "WAITING_FOR_SPONSOR" -> "asking"
                                [] OTHER -> status[r]]

Contract == INSTANCE RunContract WITH
    Outcomes <- Terminal, state <- Contracted, announced <- closing

\* One handler at a time implements the contract of a run: it is closed once,
\* announced once, and nothing the daemon, recovery or a late failure does
\* reopens it.
KeepsContract == Contract!Spec

\* Whenever a handler leaves a failed preparation, packaging or publication
\* without dying, the run it leaves is ended or has a durable next action.
FailureLeavesNextAction ==
    [][\A h \in Handlers :
          (PreparationBlocked(h) \/ PackageFailed(h) \/ PublishFailed(h))
              => ~Inert(mine[h])']_vars

\* Remediation work left behind in a RUNNING run is settled by recovery.
OutstandingSettles ==
    \A j \in Jobs : (work[j] = "ASSIGNED" /\ job[j].run # NoRun /\ status[job[j].run] = "RUNNING")
        ~> (work[j] # "ASSIGNED" \/ status[job[j].run] # "RUNNING")
=============================================================================
